---------------------------- MODULE Spec2Model ----------------------------
(***************************************************************************)
(* A model of the point-table core of the logistics-location application:  *)
(* the normaliser ensure_points_dataframe, the marker reconciler           *)
(* synchronize_points_dataframe_with_marker_positions, the centroid        *)
(* (CentroidCalculator, compute_center_of_gravity) and the file reader     *)
(* read_points_from_uploaded_file of src/logic.py, and the TOPSIS engine   *)
(* compute_topsis_details that src/ui.py calls.                            *)
(*                                                                         *)
(* A pandas DataFrame is a record                                          *)
(*    [none, columns, index, rows]                                         *)
(* none    : TRUE for Python's None passed where a frame is optional,      *)
(* columns : the sequence of column labels (strings, duplicates allowed),  *)
(* index   : the sequence of row labels,                                   *)
(* rows    : the sequence of rows, each a sequence of cells aligned with   *)
(*           columns.                                                      *)
(* A cell is a record [kind, val]:                                         *)
(*    float  : the number val,                                             *)
(*    numstr : a string that spells the number val, such as "2",           *)
(*    text   : a string that spells no number, such as "abc",              *)
(*    nan    : a missing cell (None / NaN),                                *)
(*    inf    : float("inf"),                                               *)
(*    tiny   : the number val * 2.5e-13.                                   *)
(* A call of a function ends in a record [raised, value]: raised is TRUE   *)
(* when the call ends in an exception (pandas' ValueError).                *)
(***************************************************************************)
EXTENDS Integers, Sequences, FiniteSets, TLC

VARIABLES
    called,                  \* the function applied so far: "none" before the call
    points_dataframe,        \* argument points_dataframe
    marker_positions,        \* argument marker_positions: [none, items]
    default_transport_rate,  \* argument default_transport_rate
    default_mass,            \* argument default_mass
    criteria_columns,        \* argument criteria_columns; argument available_criteria_columns
    criteria_weights_by_name,  \* argument criteria_weights_by_name
    criteria_impacts_by_name,  \* argument criteria_impacts_by_name
    uploaded_file,           \* argument uploaded_file; the file of the uploader widget
    all_drawings,            \* argument all_drawings; the drawings the map reports
    session_state,           \* st.session_state of a script
    script_run,              \* what the script run that just ended went through
    result                   \* what the call returned or raised

vars == <<called, points_dataframe, marker_positions,
          default_transport_rate, default_mass, criteria_columns,
          criteria_weights_by_name, criteria_impacts_by_name, uploaded_file,
          all_drawings, session_state, script_run, result>>

-----------------------------------------------------------------------------
(* Bounds of the inputs.                                                   *)

MaxCols == 3        \* columns of a table with free headers
MaxHeaderRows == 2  \* rows of a table with free headers
MaxRows == 2        \* rows of a table with free cells
MaxPoints == 2      \* rows of a previous point table given to the reconciler
MaxMarkers == 2     \* markers given to the reconciler

-----------------------------------------------------------------------------
(* Cells and frames.                                                       *)

F(n) == [kind |-> "float", val |-> n]
S(n) == [kind |-> "numstr", val |-> n]
Text == [kind |-> "text", val |-> 0]
NaN == [kind |-> "nan", val |-> 0]
Inf == [kind |-> "inf", val |-> 0]
\* A float far below 1: the number n * 2.5e-13, so that 1e-12 is Tiny(4).
Tiny(n) == [kind |-> "tiny", val |-> n]

NoColumn == "<None>"

CanonicalColumns == <<"longitude", "latitude", "transport_rate", "mass">>

RangeIndex(n) == [i \in 1..n |-> i - 1]

DataFrame(columns, rows) ==
    [none |-> FALSE, columns |-> columns, index |-> RangeIndex(Len(rows)), rows |-> rows]

NoneFrame == [none |-> TRUE, columns |-> <<>>, index |-> <<>>, rows |-> <<>>]

\* pd.DataFrame(): an empty frame without the canonical columns.
EmptyFrameWithoutColumns == DataFrame(<<>>, <<>>)

\* pd.DataFrame(columns=["longitude", "latitude", "transport_rate", "mass"])
EmptyPointsFrame == DataFrame(CanonicalColumns, <<>>)

NoMarkers == [none |-> TRUE, items |-> <<>>]

Return(v) == [raised |-> FALSE, value |-> v]

\* body(value), with the value computed once.
Bind(value, body(_)) == CHOOSE bound \in {body(v) : v \in {value}} : TRUE
Raise == [raised |-> TRUE, value |-> NoneFrame]

\* The arguments of a call: no function of the model writes to them.
arguments == <<points_dataframe, marker_positions, default_transport_rate, default_mass,
               criteria_columns, criteria_weights_by_name, criteria_impacts_by_name,
               uploaded_file, all_drawings>>

\* Python's None where an uploaded file is expected; also the value of the
\* argument in the calls that take no file.
NoFile == [none |-> TRUE, name |-> "", format |-> "", table |-> NoneFrame]

\* A call that takes no criteria.
NoCriteria ==
    /\ criteria_columns = <<>>
    /\ criteria_weights_by_name = <<>>
    /\ criteria_impacts_by_name = <<>>

\* Python's None where the drawings of the map are expected.
NoDrawings == [kind |-> "none", items |-> <<>>]

\* A function called outside a script: there is no session and no script run.
NoSession == [none |-> TRUE]
NoRun == [kind |-> "none"]

script == <<session_state, script_run>>

NoScript == session_state = NoSession /\ script_run = NoRun

-----------------------------------------------------------------------------
(* normalize_column_names: str(c).strip().lower() on every header.  The    *)
(* headers of the model are the concrete strings below; every other string *)
(* of the model is already trimmed and lower-case.                         *)

\* A normaliser that compares the headers as they are spelt.
strip_lower_skipped(c) == c

strip_lower(c) ==
    CASE c = " Lon " -> "lon"
      [] c = "LAT"   -> "lat"
      [] c = "Rate"  -> "rate"
      [] c = " M"    -> "m"
      [] c = " Cost" -> "cost"
      [] c = "  "    -> ""
      [] OTHER       -> c

normalize_column_names(input_dataframe) ==
    [input_dataframe EXCEPT
        !.columns = [i \in 1..Len(input_dataframe.columns) |->
                        strip_lower(input_dataframe.columns[i])]]

InColumns(name, df) == \E i \in 1..Len(df.columns) : df.columns[i] = name

choose_existing_column(normalized_dataframe, candidate_names) ==
    IF \E k \in 1..Len(candidate_names) : InColumns(candidate_names[k], normalized_dataframe)
    THEN candidate_names[CHOOSE k \in 1..Len(candidate_names) :
            /\ InColumns(candidate_names[k], normalized_dataframe)
            /\ \A j \in 1..(k - 1) : ~InColumns(candidate_names[j], normalized_dataframe)]
    ELSE NoColumn

LongitudeAliases == <<"longitude", "lon", "x">>
LatitudeAliases == <<"latitude", "lat", "y">>
TransportRateAliases ==
    <<"transport_rate", "transport", "rate", "stawka_transportowa", "stawka", "st">>
MassAliases == <<"mass", "masa", "m">>

-----------------------------------------------------------------------------
(* The pandas operations ensure_points_dataframe uses.                     *)

\* df[name] = scalar: a new last column holding the scalar in every row.
set_scalar_column(df, name, cell) ==
    [df EXCEPT !.columns = Append(df.columns, name),
               !.rows = [r \in 1..Len(df.rows) |-> Append(df.rows[r], cell)]]

\* df[name] = []: pandas raises ValueError unless the frame has no rows.
set_empty_column_raises(df) == Len(df.rows) # 0

set_empty_column(df, name) == [df EXCEPT !.columns = Append(df.columns, name)]

\* The positions of the columns df[[n1, n2, n3, n4]] selects: for each name in
\* turn, every column carrying that label.
RECURSIVE positions_of(_, _, _)
positions_of(columns, name, i) ==
    IF i > Len(columns) THEN <<>>
    ELSE (IF columns[i] = name THEN <<i>> ELSE <<>>) \o positions_of(columns, name, i + 1)

\* A selection that takes the latitude column first.
selected_positions_swapped(df, names) ==
    positions_of(df.columns, names[2], 1) \o positions_of(df.columns, names[1], 1)
        \o positions_of(df.columns, names[3], 1) \o positions_of(df.columns, names[4], 1)

selected_positions(df, names) ==
    positions_of(df.columns, names[1], 1) \o positions_of(df.columns, names[2], 1)
        \o positions_of(df.columns, names[3], 1) \o positions_of(df.columns, names[4], 1)

\* pd.to_numeric(errors="coerce") on one cell.
to_numeric(cell) ==
    CASE cell.kind = "float"  -> cell
      [] cell.kind = "numstr" -> F(cell.val)
      [] cell.kind = "inf"    -> cell
      [] cell.kind = "tiny"   -> cell
      [] OTHER                -> NaN

isna(cell) == cell.kind = "nan"

fillna(cell, value) == IF isna(cell) THEN value ELSE cell

\* dropna(subset=["longitude", "latitude"]): the kept row positions, in order.
RECURSIVE dropna_keep(_, _)
dropna_keep(rows, i) ==
    IF i > Len(rows) THEN <<>>
    ELSE (IF isna(rows[i][1]) \/ isna(rows[i][2]) THEN <<>> ELSE <<i>>)
            \o dropna_keep(rows, i + 1)

\* reset_index(drop=True).
reset_index(index) == RangeIndex(Len(index))


-----------------------------------------------------------------------------
(* ensure_points_dataframe (src/logic.py 74-120).                          *)

\* Lines 78-90: the four source columns, after the positional fallback.
resolve_columns(df) ==
    LET lon_col == choose_existing_column(df, LongitudeAliases)
        lat_col == choose_existing_column(df, LatitudeAliases)
        tr_col == choose_existing_column(df, TransportRateAliases)
        mass_col == choose_existing_column(df, MassAliases)
        infer == (lon_col = NoColumn \/ lat_col = NoColumn) /\ Len(df.columns) >= 2
    IN  [lon_col |-> IF infer /\ lon_col = NoColumn THEN df.columns[1] ELSE lon_col,
         lat_col |-> IF infer /\ lat_col = NoColumn THEN df.columns[2] ELSE lat_col,
         tr_col |-> tr_col,
         mass_col |-> mass_col]

\* Lines 92-98: the synthesized transport_rate and mass columns.
with_default_columns(df, cols) ==
    LET df1 == IF cols.tr_col = NoColumn
               THEN set_scalar_column(df, "transport_rate", F(1)) ELSE df
    IN  IF cols.mass_col = NoColumn THEN set_scalar_column(df1, "mass", F(1)) ELSE df1

\* Lines 100-106: the empty coordinate columns.
with_empty_coordinates(df, cols) ==
    LET df1 == IF cols.lon_col = NoColumn THEN set_empty_column(df, "longitude") ELSE df
    IN  IF cols.lat_col = NoColumn THEN set_empty_column(df1, "latitude") ELSE df1

\* Lines 108-118 on the selected positions: relabel, coerce, drop, re-index, fill.
select_and_clean(df, positions) ==
    LET coerced == [r \in 1..Len(df.rows) |->
                        [k \in 1..4 |-> to_numeric(df.rows[r][positions[k]])]]
        keep == dropna_keep(coerced, 1)
        kept_index == [j \in 1..Len(keep) |-> df.index[keep[j]]]
    IN  [none |-> FALSE,
         columns |-> CanonicalColumns,
         index |-> reset_index(kept_index),
         rows |-> [j \in 1..Len(keep) |->
                    <<coerced[keep[j]][1], coerced[keep[j]][2],
                      fillna(coerced[keep[j]][3], F(1)),
                      fillna(coerced[keep[j]][4], F(1))>>]]

ensure_points_dataframe(input) ==
    IF input.none THEN Return(EmptyPointsFrame)
    ELSE
      Bind(normalize_column_names(input), LAMBDA df :
      Bind(resolve_columns(df), LAMBDA cols :
      Bind(with_default_columns(df, cols), LAMBDA df2 :
          IF (cols.lon_col = NoColumn \/ cols.lat_col = NoColumn)
                /\ set_empty_column_raises(df2)
          THEN Raise
          ELSE
            Bind(with_empty_coordinates(df2, cols), LAMBDA df3 :
            LET names == <<IF cols.lon_col = NoColumn THEN "longitude" ELSE cols.lon_col,
                           IF cols.lat_col = NoColumn THEN "latitude" ELSE cols.lat_col,
                           IF cols.tr_col = NoColumn THEN "transport_rate" ELSE cols.tr_col,
                           IF cols.mass_col = NoColumn THEN "mass" ELSE cols.mass_col>>
            IN  Bind(selected_positions(df3, names), LAMBDA positions :
                    \* selected.columns = [four labels] raises unless four columns came back
                    IF Len(positions) # 4 THEN Raise
                    ELSE Return(select_and_clean(df3, positions)))))))

-----------------------------------------------------------------------------
(* The inputs of the normaliser.                                           *)

Headers == {"longitude", "lon", " Lon ", "x", "LAT", "y", "Rate", "st", " M", "foo"}

SeqsUpTo(elems, n) == UNION {[1..k -> elems] : k \in 0..n}

\* Tables with free headers: the cell of row r, column c is the number 10 r + c,
\* so that a value of the output tells the column it was read from.
HeaderTable(h, n) == DataFrame(h, [r \in 1..n |-> [c \in 1..Len(h) |-> F(10 * r + c)]])

\* A table without columns has no rows.
HeaderTables ==
    {T \in {HeaderTable(h, n) : h \in SeqsUpTo(Headers, MaxCols), n \in 0..MaxHeaderRows} :
        Len(T.columns) > 0 \/ Len(T.rows) = 0}

CoordCells == {F(1), S(2), Text, NaN, Inf}
AttrCells == {F(3), S(4), Text, NaN, Inf}

\* Tables with free coordinate cells under the headers longitude, latitude.
CoordinateTables ==
    {DataFrame(<<"longitude", "latitude">>, rows) :
        rows \in SeqsUpTo(CoordCells \X CoordCells, MaxRows)}

\* Tables with free mass cells under the headers longitude, latitude, mass; the
\* longitude is present or missing.
AttributeTables ==
    {DataFrame(<<"longitude", "latitude", "mass">>, rows) :
        rows \in SeqsUpTo({F(1), NaN} \X {F(1)} \X AttrCells, MaxRows)}

NormInputs == HeaderTables \cup CoordinateTables \cup AttributeTables \cup {NoneFrame}

InitNorm ==
    /\ called = "none"
    /\ points_dataframe \in NormInputs
    /\ marker_positions = NoMarkers
    /\ default_transport_rate = 1
    /\ default_mass = 1
    /\ NoCriteria
    /\ uploaded_file = NoFile
    /\ all_drawings = NoDrawings
    /\ NoScript
    /\ result = Return(NoneFrame)

CallEnsure ==
    /\ called = "none"
    /\ called' = "ensure_points_dataframe"
    /\ result' = ensure_points_dataframe(points_dataframe)
    /\ UNCHANGED arguments
    /\ UNCHANGED script

NextNorm == CallEnsure

SpecNorm == InitNorm /\ [][NextNorm]_vars

-----------------------------------------------------------------------------
(* synchronize_points_dataframe_with_marker_positions (src/logic.py        *)
(* 246-330).  Indices are 0-based as in the source; a pair of all_pairs is *)
(* <<dist, ei, mi>>.                                                       *)

\* list(marker_positions or [])
list_or_empty(markers) == IF markers.none THEN <<>> ELSE markers.items

\* Rows whose coordinates are stored under each other's key.
frame_from_rows_swapped(rows) ==
    IF Len(rows) = 0 THEN DataFrame(<<>>, <<>>)
    ELSE DataFrame(<<"latitude", "longitude", "transport_rate", "mass">>, rows)

\* pd.DataFrame(rows) of a list of dicts: no column at all when the list is empty.
frame_from_rows(rows) ==
    IF Len(rows) = 0 THEN DataFrame(<<>>, <<>>) ELSE DataFrame(CanonicalColumns, rows)

\* math.sqrt((elon - mlon) ** 2 + (elat - mlat) ** 2) is used only as a sort key.
\* The square root is increasing and the coordinates of the model are small
\* integers, so two keys compare as their squares do: the key of the model is the
\* squared distance.
distance_key(e, m) == (e[1] - m[1]) * (e[1] - m[1]) + (e[2] - m[2]) * (e[2] - m[2])

\* Lines 281-285: every pair, previous points outermost.
build_all_pairs(existing_positions, markers) ==
    LET m == Len(markers)
    IN  [k \in 1..(Len(existing_positions) * m) |->
            LET ei == (k - 1) \div m
                mi == (k - 1) % m
            IN  <<distance_key(existing_positions[ei + 1], markers[mi + 1]), ei, mi>>]

\* A list left in the order it was built.
sort_by_distance_skipped(pairs) == pairs

\* A sort that puts a later pair before the earlier pairs of the same distance.
RECURSIVE sort_by_distance_unstable(_)
sort_by_distance_unstable(pairs) ==
    IF Len(pairs) = 0 THEN <<>>
    ELSE LET item == pairs[Len(pairs)]
             front == sort_by_distance_unstable(SubSeq(pairs, 1, Len(pairs) - 1))
         IN  SelectSeq(front, LAMBDA p : p[1] < item[1]) \o <<item>>
                \o SelectSeq(front, LAMBDA p : p[1] >= item[1])

\* A sort with reverse=True: farthest pairs first.
RECURSIVE sort_by_distance_descending(_)
sort_by_distance_descending(pairs) ==
    IF Len(pairs) = 0 THEN <<>>
    ELSE LET item == pairs[Len(pairs)]
             front == sort_by_distance_descending(SubSeq(pairs, 1, Len(pairs) - 1))
         IN  SelectSeq(front, LAMBDA p : p[1] >= item[1]) \o <<item>>
                \o SelectSeq(front, LAMBDA p : p[1] < item[1])

\* Line 287: all_pairs.sort(key=distance).  list.sort is stable: pairs of equal
\* distance keep the order in which they were built.
RECURSIVE sort_by_distance(_)
sort_by_distance(pairs) ==
    IF Len(pairs) = 0 THEN <<>>
    ELSE LET item == pairs[Len(pairs)]
             front == sort_by_distance(SubSeq(pairs, 1, Len(pairs) - 1))
         IN  SelectSeq(front, LAMBDA p : p[1] <= item[1]) \o <<item>>
                \o SelectSeq(front, LAMBDA p : p[1] > item[1])

NoMatch == [matched_existing |-> {}, matched_markers |-> {}, matched_map |-> <<>>]

\* Lines 293-300.  matched_map is a dict: its entries keep their insertion order,
\* and are held here as the sequence of <<ei, mi>> in that order.
RECURSIVE greedy_loop(_, _, _, _, _)
greedy_loop(all_pairs, i, st, n, m) ==
    IF i > Len(all_pairs) THEN st
    ELSE LET ei == all_pairs[i][2]
             mi == all_pairs[i][3]
         IN  IF ei \in st.matched_existing \/ mi \in st.matched_markers
             THEN greedy_loop(all_pairs, i + 1, st, n, m)
             ELSE LET st2 == [matched_existing |-> st.matched_existing \cup {ei},
                              matched_markers |-> st.matched_markers \cup {mi},
                              matched_map |-> Append(st.matched_map, <<ei, mi>>)]
                  IN  IF Cardinality(st2.matched_existing) = n
                            \/ Cardinality(st2.matched_markers) = m
                      THEN st2
                      ELSE greedy_loop(all_pairs, i + 1, st2, n, m)

existing_positions_of(df) == [i \in 1..Len(df.rows) |-> <<df.rows[i][1].val, df.rows[i][2].val>>]

sorted_pairs(df, markers) == sort_by_distance(build_all_pairs(existing_positions_of(df), markers))

match_points(df, markers) ==
    greedy_loop(sorted_pairs(df, markers), 1, NoMatch, Len(df.rows), Len(markers))

\* matched_map[ei]
marker_of(matched_map, ei) ==
    matched_map[CHOOSE t \in 1..Len(matched_map) : matched_map[t][1] = ei][2]

\* Rows that keep the coordinates of the previous point instead of the marker's.
build_updated_rows_unmoved(df, markers, matching, dtr, dm) ==
    LET kept == SelectSeq(RangeIndex(Len(df.rows)),
                    LAMBDA ei : ei \in matching.matched_existing)
        fresh == SelectSeq(RangeIndex(Len(markers)),
                    LAMBDA mi : mi \notin matching.matched_markers)
    IN  [j \in 1..Len(kept) |-> df.rows[kept[j] + 1]]
        \o [j \in 1..Len(fresh) |->
            <<F(markers[fresh[j] + 1][1]), F(markers[fresh[j] + 1][2]), F(dtr), F(dm)>>]

\* Lines 302-328.
build_updated_rows(df, markers, matching, dtr, dm) ==
    LET kept == SelectSeq(RangeIndex(Len(df.rows)),
                    LAMBDA ei : ei \in matching.matched_existing)
        fresh == SelectSeq(RangeIndex(Len(markers)),
                    LAMBDA mi : mi \notin matching.matched_markers)
    IN  [j \in 1..Len(kept) |->
            LET mi == marker_of(matching.matched_map, kept[j])
            IN  <<F(markers[mi + 1][1]), F(markers[mi + 1][2]),
                  df.rows[kept[j] + 1][3], df.rows[kept[j] + 1][4]>>]
        \o [j \in 1..Len(fresh) |->
            <<F(markers[fresh[j] + 1][1]), F(markers[fresh[j] + 1][2]), F(dtr), F(dm)>>]

synchronize_points_dataframe_with_marker_positions(input, marker_input, dtr, dm) ==
    Bind(ensure_points_dataframe(input), LAMBDA ensured :
    Bind(list_or_empty(marker_input), LAMBDA markers :
        LET df == ensured.value
        IN  IF ensured.raised THEN ensured
            ELSE IF Len(markers) = 0 THEN Return(EmptyPointsFrame)
            ELSE IF Len(df.rows) = 0
            THEN ensure_points_dataframe(frame_from_rows(
                    [j \in 1..Len(markers) |->
                        <<F(markers[j][1]), F(markers[j][2]), F(dtr), F(dm)>>]))
            ELSE ensure_points_dataframe(frame_from_rows(
                    build_updated_rows(df, markers, match_points(df, markers), dtr, dm)))))

-----------------------------------------------------------------------------
(* The inputs of the reconciler: points and markers on a small grid.  The  *)
(* previous point of row r carries transport_rate 10 + r and mass 20 + r,  *)
(* so that a row of the output tells the previous point it came from.      *)

Longitudes == 0..2
Latitudes == 0..1
GridPositions == Longitudes \X Latitudes

PointTable(positions) ==
    DataFrame(CanonicalColumns,
        [r \in 1..Len(positions) |->
            <<F(positions[r][1]), F(positions[r][2]), F(10 + r), F(20 + r)>>])

PointTables == {PointTable(positions) : positions \in SeqsUpTo(GridPositions, MaxPoints)}

MarkerLists == {[none |-> FALSE, items |-> items] : items \in SeqsUpTo(GridPositions, MaxMarkers)}

DefaultPairs == {<<1, 1>>, <<5, 6>>}

InitSync ==
    /\ called = "none"
    /\ points_dataframe \in PointTables \cup {NoneFrame}
    /\ marker_positions \in MarkerLists \cup {NoMarkers}
    /\ \E d \in DefaultPairs : default_transport_rate = d[1] /\ default_mass = d[2]
    /\ NoCriteria
    /\ uploaded_file = NoFile
    /\ all_drawings = NoDrawings
    /\ NoScript
    /\ result = Return(NoneFrame)

CallSynchronize ==
    /\ called = "none"
    /\ called' = "synchronize_points_dataframe_with_marker_positions"
    /\ result' = synchronize_points_dataframe_with_marker_positions(
                    points_dataframe, marker_positions, default_transport_rate, default_mass)
    /\ UNCHANGED arguments
    /\ UNCHANGED script

NextSync == CallSynchronize

SpecSync == InitSync /\ [][NextSync]_vars

-----------------------------------------------------------------------------
(* The floats of the centroid are IEEE 754 doubles, as the floats of       *)
(* Python.  A natural number of any size is held as the sequence of its    *)
(* digits in base 2^13, the lowest first, with no 0 at the top.  A float   *)
(* is the record [neg, man, exp], the number (-1)^neg * man * 2^exp, with  *)
(* man a natural number that is odd, or 0 with exp 0; the man of a double  *)
(* has at most 53 bits.  A sum, a product and a quotient are taken exactly *)
(* and then rounded to 53 bits, to the nearest double and to the even one  *)
(* of two nearest.  No number of the model is near the largest or the      *)
(* smallest double.                                                        *)

DigitBits == 13

MantissaBits == 53

DigitBase == 2^DigitBits

Coef(a, i) == IF i <= Len(a) THEN a[i] ELSE 0

RECURSIVE big_trim(_)
big_trim(a) ==
    IF Len(a) = 0 THEN a
    ELSE IF a[Len(a)] # 0 THEN a
    ELSE big_trim(SubSeq(a, 1, Len(a) - 1))

\* The natural number n, 0 <= n < 2^31.
RECURSIVE big_of(_)
big_of(n) == IF n = 0 THEN <<>> ELSE <<n % DigitBase>> \o big_of(n \div DigitBase)

RECURSIVE add_digits(_, _, _, _)
add_digits(a, b, i, carry) ==
    IF i > Len(a) /\ i > Len(b) THEN (IF carry = 0 THEN <<>> ELSE <<carry>>)
    ELSE <<(Coef(a, i) + Coef(b, i) + carry) % DigitBase>>
            \o add_digits(a, b, i + 1, (Coef(a, i) + Coef(b, i) + carry) \div DigitBase)

big_add(a, b) == add_digits(a, b, 1, 0)

RECURSIVE sub_digits(_, _, _, _)
sub_digits(a, b, i, borrow) ==
    IF i > Len(a) THEN <<>>
    ELSE IF a[i] - Coef(b, i) - borrow < 0
    THEN <<a[i] - Coef(b, i) - borrow + DigitBase>> \o sub_digits(a, b, i + 1, 1)
    ELSE <<a[i] - Coef(b, i) - borrow>> \o sub_digits(a, b, i + 1, 0)

\* a - b, for a >= b.
big_sub(a, b) == big_trim(sub_digits(a, b, 1, 0))

RECURSIVE cmp_digits(_, _, _)
cmp_digits(a, b, i) ==
    IF i = 0 THEN 0
    ELSE IF a[i] > b[i] THEN 1
    ELSE IF a[i] < b[i] THEN 0 - 1
    ELSE cmp_digits(a, b, i - 1)

\* 1, 0 or -1 as a is greater than, equal to or less than b.
big_cmp(a, b) ==
    IF Len(a) > Len(b) THEN 1
    ELSE IF Len(a) < Len(b) THEN 0 - 1
    ELSE cmp_digits(a, b, Len(a))

RECURSIVE column_sum(_, _, _, _, _)
column_sum(a, b, k, i, last) ==
    IF i > last THEN 0
    ELSE a[i] * Coef(b, k - i + 1) + column_sum(a, b, k, i + 1, last)

RECURSIVE mul_digits(_, _, _, _)
mul_digits(a, b, k, carry) ==
    IF k > Len(a) + Len(b) THEN <<>>
    ELSE Bind(column_sum(a, b, k, 1, IF k < Len(a) THEN k ELSE Len(a)) + carry, LAMBDA s :
            <<s % DigitBase>> \o mul_digits(a, b, k + 1, s \div DigitBase))

big_mul(a, b) ==
    IF Len(a) = 0 \/ Len(b) = 0 THEN <<>> ELSE big_trim(mul_digits(a, b, 1, 0))

\* 2^k
big_power_of_two(k) ==
    [i \in 1..(k \div DigitBits + 1) |->
        IF i = k \div DigitBits + 1 THEN 2^(k % DigitBits) ELSE 0]

\* a * 2^k
big_shift_left(a, k) == IF k = 0 THEN a ELSE big_mul(a, big_power_of_two(k))

\* a \div 2^k
big_shift_right(a, k) ==
    IF k = 0 THEN a
    ELSE big_trim(
        [i \in 1..(IF Len(a) > k \div DigitBits THEN Len(a) - k \div DigitBits ELSE 0) |->
            Coef(a, i + k \div DigitBits) \div 2^(k % DigitBits)
                + (Coef(a, i + k \div DigitBits + 1) % 2^(k % DigitBits))
                        * 2^(DigitBits - (k % DigitBits))])

RECURSIVE bits_of_digit(_)
bits_of_digit(n) == IF n = 0 THEN 0 ELSE 1 + bits_of_digit(n \div 2)

\* The number of bits of a: 0 for 0.
big_bits(a) ==
    IF Len(a) = 0 THEN 0 ELSE DigitBits * (Len(a) - 1) + bits_of_digit(a[Len(a)])

RECURSIVE low_zero_bits(_)
low_zero_bits(n) == IF n % 2 = 1 THEN 0 ELSE 1 + low_zero_bits(n \div 2)

RECURSIVE low_zero_digits(_, _)
low_zero_digits(a, i) == IF a[i] # 0 THEN 0 ELSE 1 + low_zero_digits(a, i + 1)

\* The number of 0 bits at the low end of a, for a other than 0.
big_low_zeros(a) ==
    Bind(low_zero_digits(a, 1), LAMBDA z : DigitBits * z + low_zero_bits(a[z + 1]))

big_is_odd(a) == Len(a) > 0 /\ a[1] % 2 = 1

\* Bit i of a, the lowest being bit 1.
big_bit(a, i) ==
    (Coef(a, (i - 1) \div DigitBits + 1) \div 2^((i - 1) % DigitBits)) % 2

\* The record of the number (-1)^neg * man * 2^exp, with man made odd.
number(neg, man, exp) ==
    IF Len(man) = 0 THEN [neg |-> neg, man |-> <<>>, exp |-> 0]
    ELSE Bind(big_low_zeros(man), LAMBDA z :
            [neg |-> neg, man |-> big_shift_right(man, z), exp |-> exp + z])

\* The double nearest to the number v; of two nearest, the one whose last bit is 0.
round_to_double(v) ==
    IF big_bits(v.man) <= MantissaBits THEN v
    ELSE Bind(big_bits(v.man) - MantissaBits, LAMBDA k :
         Bind(big_shift_right(v.man, k), LAMBDA kept :
         Bind(big_cmp(big_sub(v.man, big_shift_left(kept, k)), big_power_of_two(k - 1)),
              LAMBDA above_half :
            IF above_half > 0 \/ (above_half = 0 /\ big_is_odd(kept))
            THEN number(v.neg, big_add(kept, <<1>>), v.exp + k)
            ELSE number(v.neg, kept, v.exp + k))))

PlusZero == [neg |-> FALSE, man |-> <<>>, exp |-> 0]

\* float(n) of the integer n.
float_of_int(n) == number(n < 0, big_of(IF n < 0 THEN 0 - n ELSE n), 0)

float_sign(a) == IF Len(a.man) = 0 THEN 0 ELSE IF a.neg THEN 0 - 1 ELSE 1

float_neg(a) == [a EXCEPT !.neg = ~a.neg]

float_abs(a) == [a EXCEPT !.neg = FALSE]

\* |a| and |b| brought to the exponent of the lower one.
aligned(a, b) ==
    Bind(IF a.exp < b.exp THEN a.exp ELSE b.exp, LAMBDA exp :
        [a |-> big_shift_left(a.man, a.exp - exp),
         b |-> big_shift_left(b.man, b.exp - exp),
         exp |-> exp])

\* a + b, exactly.  A sum that is 0 is +0.0, unless both terms are -0.0.
exact_add(a, b) ==
    IF Len(a.man) = 0 /\ Len(b.man) = 0 THEN [PlusZero EXCEPT !.neg = a.neg /\ b.neg]
    ELSE IF Len(a.man) = 0 THEN b
    ELSE IF Len(b.man) = 0 THEN a
    ELSE Bind(aligned(a, b), LAMBDA at :
            IF a.neg = b.neg THEN number(a.neg, big_add(at.a, at.b), at.exp)
            ELSE Bind(big_cmp(at.a, at.b), LAMBDA order :
                    IF order = 0 THEN PlusZero
                    ELSE IF order > 0 THEN number(a.neg, big_sub(at.a, at.b), at.exp)
                    ELSE number(b.neg, big_sub(at.b, at.a), at.exp)))

exact_sub(a, b) == exact_add(a, float_neg(b))

\* a * b, exactly.
exact_mul(a, b) ==
    IF Len(a.man) = 0 \/ Len(b.man) = 0 THEN [PlusZero EXCEPT !.neg = (a.neg # b.neg)]
    ELSE number(a.neg # b.neg, big_mul(a.man, b.man), a.exp + b.exp)

\* The order of the numbers a and b: 1, 0 or -1.
float_cmp(a, b) == float_sign(exact_sub(a, b))

float_lt(a, b) == float_cmp(a, b) < 0

float_add(a, b) == round_to_double(exact_add(a, b))

float_sub(a, b) == round_to_double(exact_sub(a, b))

float_mul(a, b) == round_to_double(exact_mul(a, b))

\* One step of the long division of dividend * 2^shift by divisor, bit by bit from
\* the top: todo bits are left, quotient and remainder are those of the bits taken.
division_step(dividend, shift, divisor, at) ==
    Bind(big_add(big_add(at.remainder, at.remainder),
                 IF at.todo > shift /\ big_bit(dividend, at.todo - shift) = 1
                 THEN <<1>> ELSE <<>>),
         LAMBDA taken :
            IF big_cmp(taken, divisor) >= 0
            THEN [todo |-> at.todo - 1,
                  quotient |-> big_add(big_add(at.quotient, at.quotient), <<1>>),
                  remainder |-> big_sub(taken, divisor)]
            ELSE [todo |-> at.todo - 1,
                  quotient |-> big_add(at.quotient, at.quotient),
                  remainder |-> taken])

RECURSIVE division_steps(_, _, _, _, _)
division_steps(dividend, shift, divisor, at, steps) ==
    IF steps = 0 \/ at.todo = 0 THEN at
    ELSE Bind(division_step(dividend, shift, divisor, at), LAMBDA next :
            division_steps(dividend, shift, divisor, next, steps - 1))

\* The long division, a digit of the quotient at a time.
RECURSIVE long_division(_, _, _, _)
long_division(dividend, shift, divisor, at) ==
    IF at.todo = 0 THEN at
    ELSE long_division(dividend, shift, divisor,
                       division_steps(dividend, shift, divisor, at, DigitBits))

\* a / b, for b other than 0: the quotient of the two man is taken to 55 bits or
\* more, and one more bit tells whether anything is left.
float_div(a, b) ==
    IF Len(a.man) = 0 THEN [PlusZero EXCEPT !.neg = (a.neg # b.neg)]
    ELSE Bind(MantissaBits + 2 + big_bits(b.man) - big_bits(a.man), LAMBDA shift :
         Bind(long_division(a.man, shift, b.man,
                            [todo |-> big_bits(a.man) + shift,
                             quotient |-> <<>>, remainder |-> <<>>]),
              LAMBDA divided :
            round_to_double(
                number(a.neg # b.neg,
                       big_add(big_add(divided.quotient, divided.quotient),
                               IF Len(divided.remainder) = 0 THEN <<>> ELSE <<1>>),
                       a.exp - b.exp - shift - 1))))

\* The literals 0.0, 2.5e-13 and 1e-12: a decimal literal is the double nearest to
\* it, here 25 / 10^14 and 1 / 10^12.
ZeroFloat == PlusZero
QuarterOfEpsilon ==
    float_div(float_of_int(25), exact_mul(float_of_int(10000000), float_of_int(10000000)))
Epsilon == float_div(float_of_int(1), exact_mul(float_of_int(1000000), float_of_int(1000000)))

\* float(x) of a finite numeric cell: Tiny(n) is the product n * 2.5e-13.  The
\* doubles held here are finite, and float("inf") has no value among them.
float_of(cell) ==
    CASE cell.kind = "tiny"  -> float_mul(float_of_int(cell.val), QuarterOfEpsilon)
      [] cell.kind = "float" -> float_of_int(cell.val)

-----------------------------------------------------------------------------
(* CentroidCalculator (src/logic.py 19-58).  A point of _pts is            *)
(* <<x, y, transport_rate, mass>>, four floats.                            *)

\* add(x, y, transport_rate, mass), appended to _pts.
add(pts, x, y, transport_rate, mass) ==
    Append(pts, <<float_of(x), float_of(y), float_of(transport_rate), float_of(mass)>>)

\* A weight that forgets the mass.
point_weight_rate_only(p) == p[3]

\* Line 39: w = float(transport_rate) * float(mass)
point_weight(p) == float_mul(p[3], p[4])

NoSums == [total_weight |-> ZeroFloat, weighted_x_sum |-> ZeroFloat, weighted_y_sum |-> ZeroFloat]

\* Lines 38-42: the loop over _pts.
RECURSIVE accumulate(_, _, _)
accumulate(pts, i, sums) ==
    IF i > Len(pts) THEN sums
    ELSE Bind(point_weight(pts[i]), LAMBDA w :
         Bind([total_weight |-> float_add(sums.total_weight, w),
               weighted_x_sum |-> float_add(sums.weighted_x_sum, float_mul(w, pts[i][1])),
               weighted_y_sum |-> float_add(sums.weighted_y_sum, float_mul(w, pts[i][2]))],
              LAMBDA added : accumulate(pts, i + 1, added)))

\* sum(p[k] for p in self._pts): the first i terms, added from the left to 0.
RECURSIVE sum_of(_, _, _)
sum_of(pts, k, i) ==
    IF i = 0 THEN ZeroFloat ELSE float_add(sum_of(pts, k, i - 1), pts[i][k])

\* A test that takes only a total weight of exactly 0 as degenerate.
is_degenerate_only_zero(total_weight) == float_sign(total_weight) = 0

\* Line 44: abs(total_weight) < 1e-12
is_degenerate(total_weight) == float_lt(float_abs(total_weight), Epsilon)

\* A centroid of no point that divides by the number of points.
centroid_of_nothing_divides == [raised |-> TRUE, value |-> <<ZeroFloat, ZeroFloat>>]

\* Lines 31-32: return 0.0, 0.0
centroid_of_nothing == [raised |-> FALSE, value |-> <<ZeroFloat, ZeroFloat>>]

centroid(pts) ==
    IF Len(pts) = 0 THEN centroid_of_nothing
    ELSE
      Bind(accumulate(pts, 1, NoSums), LAMBDA sums :
          IF is_degenerate(sums.total_weight)
          THEN [raised |-> FALSE,
                value |-> <<float_div(sum_of(pts, 1, Len(pts)), float_of_int(Len(pts))),
                            float_div(sum_of(pts, 2, Len(pts)), float_of_int(Len(pts)))>>]
          \* a / 0.0 raises ZeroDivisionError
          ELSE IF float_sign(sums.total_weight) = 0
          THEN [raised |-> TRUE, value |-> <<ZeroFloat, ZeroFloat>>]
          ELSE [raised |-> FALSE,
                value |-> <<float_div(sums.weighted_x_sum, sums.total_weight),
                            float_div(sums.weighted_y_sum, sums.total_weight)>>])

\* Line 55: the differences float(centroid_x) - float(x) and float(centroid_y) -
\* float(y) of one point, two doubles.
point_differences(cx, cy, p) == <<float_sub(cx, p[1]), float_sub(cy, p[2])>>

\* Lines 52-58.  d ** 2 is pow(d, 2.0) of the C library, which is not always the
\* double nearest to d * d, and math.sqrt is its sqrt: neither is computed here, nor
\* is their sum.  The sum is held as the sequence of its terms, each the weight w and
\* the differences dx and dy, standing for w * math.sqrt(dx ** 2 + dy ** 2).
weighted_euclidean_distance_sum(pts, centroid_x, centroid_y) ==
    [i \in 1..Len(pts) |->
        Bind(point_differences(centroid_x, centroid_y, pts[i]), LAMBDA d :
            [w |-> point_weight(pts[i]), dx |-> d[1], dy |-> d[2]])]

\* The loop of compute_center_of_gravity over df.iterrows().
RECURSIVE add_rows(_, _, _)
add_rows(pts, rows, i) ==
    IF i > Len(rows) THEN pts
    ELSE add_rows(add(pts, rows[i][1], rows[i][2], rows[i][3], rows[i][4]), rows, i + 1)

\* compute_center_of_gravity (src/logic.py 158-166).
compute_center_of_gravity(input) ==
    Bind(ensure_points_dataframe(input), LAMBDA ensured :
        IF ensured.raised THEN ensured
        ELSE Bind(add_rows(<<>>, ensured.value.rows, 1), LAMBDA pts :
             Bind(centroid(pts), LAMBDA c :
                IF c.raised THEN Raise
                ELSE Return(<<c.value[1], c.value[2],
                             weighted_euclidean_distance_sum(pts, c.value[1], c.value[2])>>))))

-----------------------------------------------------------------------------
(* The inputs of the centroid: point tables whose transport rates are      *)
(* negative, zero, positive or far below 1 and whose masses are zero,      *)
(* positive or missing, and the example of three points of weights 1, 1, 2.*)

MaxCentroidPoints == 2

CentroidPositions == {<<0, 0>>, <<1, 0>>, <<3, 2>>}
TransportRateCells == {F(0 - 1), F(0), F(1), Tiny(1), Tiny(3)}
MassCells == {F(0), F(2), NaN}

CentroidRows ==
    {<<F(p[1]), F(p[2]), tr, mass>> :
        p \in CentroidPositions, tr \in TransportRateCells, mass \in MassCells}

CentroidTables ==
    {DataFrame(CanonicalColumns, rows) : rows \in SeqsUpTo(CentroidRows, MaxCentroidPoints)}

ExampleTable ==
    DataFrame(CanonicalColumns,
        << <<F(0), F(0), F(1), F(1)>>, <<F(10), F(0), F(1), F(1)>>,
           <<F(5), F(10), F(2), F(1)>> >>)

\* Four points whose weights -1, 3 * 2.5e-13, 2.5e-13 and 1 add up to 1e-12 as real
\* numbers; as doubles they add up to less in this order and to more in the other.
CancellingRows ==
    << <<F(0), F(0), F(0 - 1), F(1)>>, <<F(1), F(0), Tiny(3), F(1)>>,
       <<F(3), F(2), Tiny(1), F(1)>>, <<F(0), F(0), F(1), F(1)>> >>

CancellingTables ==
    {DataFrame(CanonicalColumns, CancellingRows),
     DataFrame(CanonicalColumns,
        <<CancellingRows[4], CancellingRows[2], CancellingRows[3], CancellingRows[1]>>)}

InitCentroid ==
    /\ called = "none"
    /\ points_dataframe \in CentroidTables \cup CancellingTables \cup {ExampleTable, NoneFrame}
    /\ marker_positions = NoMarkers
    /\ default_transport_rate = 1
    /\ default_mass = 1
    /\ NoCriteria
    /\ uploaded_file = NoFile
    /\ all_drawings = NoDrawings
    /\ NoScript
    /\ result = Return(NoneFrame)

CallCenterOfGravity ==
    /\ called = "none"
    /\ called' = "compute_center_of_gravity"
    /\ result' = compute_center_of_gravity(points_dataframe)
    /\ UNCHANGED arguments
    /\ UNCHANGED script

NextCentroid == CallCenterOfGravity

SpecCentroid == InitCentroid /\ [][NextCentroid]_vars

-----------------------------------------------------------------------------
(* compute_topsis_details, the TOPSIS engine (section 4.3 of the           *)
(* specification; ui.py calls it at 781-786 and 888-893).  The criteria    *)
(* values and the weights are integers.  The numbers of the algorithm are  *)
(* held exactly:                                                           *)
(*   a normalised value  [num, rad]       is num / sqrt(rad),              *)
(*   a weight            [num, den]       is num / den,                    *)
(*   a weighted value    [num, den, rad]  is num / (den * sqrt(rad)),      *)
(*   a distance          [squared_num, squared_den]                        *)
(*                                        is sqrt(squared_num/squared_den),*)
(*   a score             [kind, minus, plus]: kind "zero" is the literal   *)
(*       0.0, kind "nan" is 0.0 / 0.0, kind "quotient" is                  *)
(*       d- / (d+ + d-) for the distances d- = sqrt(minus / D),            *)
(*       d+ = sqrt(plus / D) over the denominator D the distances of one   *)
(*       call share.                                                       *)

RankingColumns == <<"longitude", "latitude", "topsis_score", "topsis_rank">>

EmptyRanking == DataFrame(RankingColumns, <<>>)

column_position(df, name) == CHOOSE i \in 1..Len(df.columns) : df.columns[i] = name

\* A build that keeps a selected name whether or not the table has the column.
valid_criteria_columns_unchecked(df, selected) == selected

\* The selected criteria that are columns of the table, in the selected order.
valid_criteria_columns(df, selected) == SelectSeq(selected, LAMBDA c : InColumns(c, df))

\* Step 1: a missing or unparseable cell counts 0.0.
criterion_value(cell) ==
    IF cell.kind \in {"float", "numstr"} THEN cell.val ELSE 0

build_decision_matrix(df, valid) ==
    [i \in 1..Len(df.rows) |->
        [j \in 1..Len(valid) |-> criterion_value(df.rows[i][column_position(df, valid[j])])]]

\* Step 2: sum over the rows i of x_ij squared.
RECURSIVE sum_of_squares(_, _, _)
sum_of_squares(matrix, j, i) ==
    IF i > Len(matrix) THEN 0
    ELSE matrix[i][j] * matrix[i][j] + sum_of_squares(matrix, j, i + 1)

\* Step 2: r_ij = x_ij / sqrt(sum_i x_ij^2), and 0 in a column entirely zero.
vector_normalize(matrix, k) ==
    [i \in 1..Len(matrix) |->
        [j \in 1..k |->
            LET norm2 == sum_of_squares(matrix, j, 1)
            IN  IF norm2 = 0 THEN [num |-> 0, rad |-> 1]
                ELSE [num |-> matrix[i][j], rad |-> norm2]]]

RECURSIVE sum_of_weights(_, _)
sum_of_weights(weights, j) ==
    IF j > Len(weights) THEN 0 ELSE weights[j] + sum_of_weights(weights, j + 1)

\* Weights divided by their sum also when the sum is 0.
normalize_weights_without_fallback(supplied) ==
    [j \in 1..Len(supplied) |-> [num |-> supplied[j], den |-> sum_of_weights(supplied, 1)]]

\* Weights left as they were supplied.
normalize_weights_skipped(supplied) ==
    [j \in 1..Len(supplied) |-> [num |-> supplied[j], den |-> 1]]

\* Step 3: the weights divided by their sum; equal weights 1/k when all are 0.
normalize_weights(supplied) ==
    LET total == sum_of_weights(supplied, 1)
    IN  IF total = 0
        THEN [j \in 1..Len(supplied) |-> [num |-> 1, den |-> Len(supplied)]]
        ELSE [j \in 1..Len(supplied) |-> [num |-> supplied[j], den |-> total]]

\* Step 4: v_ij = r_ij * w_j.
weight_matrix(normalized, weights, k) ==
    [i \in 1..Len(normalized) |->
        [j \in 1..k |-> [num |-> normalized[i][j].num * weights[j].num,
                         den |-> weights[j].den,
                         rad |-> normalized[i][j].rad]]]

\* The largest and the smallest value of column j: the values of one column share
\* den and rad, so they compare as their numerators do.
column_max(weighted, j) ==
    weighted[CHOOSE i \in 1..Len(weighted) :
        \A i2 \in 1..Len(weighted) : weighted[i2][j].num <= weighted[i][j].num][j]

column_min(weighted, j) ==
    weighted[CHOOSE i \in 1..Len(weighted) :
        \A i2 \in 1..Len(weighted) : weighted[i2][j].num >= weighted[i][j].num][j]

\* Ideals that take every criterion as a benefit.
ideal_best_all_benefit(weighted, impact, j) == column_max(weighted, j)

\* Step 5: the best value is the column maximum for a benefit and the column
\* minimum for a cost; the worst value is the other one.
ideal_best(weighted, impact, j) ==
    IF impact = "cost" THEN column_min(weighted, j) ELSE column_max(weighted, j)

ideal_worst(weighted, impact, j) ==
    IF impact = "cost" THEN column_max(weighted, j) ELSE column_min(weighted, j)

\* The product of the radicands of the columns from j on.
RECURSIVE product_of_radicands(_, _)
product_of_radicands(row, j) ==
    IF j > Len(row) THEN 1 ELSE row[j].rad * product_of_radicands(row, j + 1)

\* Step 6: sum_j (v_ij - ideal_j)^2, brought to the denominator
\* den^2 * product of the radicands.
RECURSIVE squared_distance_numerator(_, _, _, _)
squared_distance_numerator(row, ideal, all_radicands, j) ==
    IF j > Len(row) THEN 0
    ELSE (row[j].num - ideal[j].num) * (row[j].num - ideal[j].num)
                * (all_radicands \div row[j].rad)
            + squared_distance_numerator(row, ideal, all_radicands, j + 1)

distance_to(row, ideal) ==
    LET all_radicands == product_of_radicands(row, 1)
    IN  [squared_num |-> squared_distance_numerator(row, ideal, all_radicands, 1),
         squared_den |-> row[1].den * row[1].den * all_radicands]

\* A score that divides also when both distances are 0.
topsis_score_unguarded(to_best, to_worst) ==
    IF to_best.squared_num = 0 /\ to_worst.squared_num = 0
    THEN [kind |-> "nan", minus |-> 0, plus |-> 0]
    ELSE [kind |-> "quotient", minus |-> to_worst.squared_num, plus |-> to_best.squared_num]

\* Step 7: s_i = d-_i / (d+_i + d-_i), and 0.0 when both distances are 0.
topsis_score(to_best, to_worst) ==
    IF to_best.squared_num = 0 /\ to_worst.squared_num = 0
    THEN [kind |-> "zero", minus |-> 0, plus |-> 1]
    ELSE [kind |-> "quotient", minus |-> to_worst.squared_num, plus |-> to_best.squared_num]

\* s < t for two scores: sqrt(a) / (sqrt(b) + sqrt(a)) grows with a / b.
score_less(s, t) == s.minus * t.plus < t.minus * s.plus

\* A ranking in the order of the rows.
RECURSIVE rank_by_score_skipped(_, _)
rank_by_score_skipped(scores, n) ==
    IF n = 0 THEN <<>> ELSE Append(rank_by_score_skipped(scores, n - 1), n)

\* A ranking by ascending score.
RECURSIVE rank_by_score_ascending(_, _)
rank_by_score_ascending(scores, n) ==
    IF n = 0 THEN <<>>
    ELSE LET front == rank_by_score_ascending(scores, n - 1)
         IN  SelectSeq(front, LAMBDA i : ~score_less(scores[n], scores[i])) \o <<n>>
                \o SelectSeq(front, LAMBDA i : score_less(scores[n], scores[i]))

\* A ranking that puts a later row before the earlier rows of the same score.
RECURSIVE rank_by_score_unstable(_, _)
rank_by_score_unstable(scores, n) ==
    IF n = 0 THEN <<>>
    ELSE LET front == rank_by_score_unstable(scores, n - 1)
         IN  SelectSeq(front, LAMBDA i : score_less(scores[n], scores[i])) \o <<n>>
                \o SelectSeq(front, LAMBDA i : ~score_less(scores[n], scores[i]))

\* Step 8: the rows 1..n by descending score, rows of equal score in their
\* original order.
RECURSIVE rank_by_score(_, _)
rank_by_score(scores, n) ==
    IF n = 0 THEN <<>>
    ELSE LET front == rank_by_score(scores, n - 1)
         IN  SelectSeq(front, LAMBDA i : ~score_less(scores[i], scores[n])) \o <<n>>
                \o SelectSeq(front, LAMBDA i : score_less(scores[i], scores[n]))

build_ranking_dataframe(df, scores, order) ==
    DataFrame(RankingColumns,
        [r \in 1..Len(order) |->
            <<df.rows[order[r]][column_position(df, "longitude")],
              df.rows[order[r]][column_position(df, "latitude")],
              scores[order[r]], F(r)>>])

NoDetails ==
    [valid_criteria_columns |-> <<>>, decision_matrix |-> <<>>, normalized_matrix |-> <<>>,
     normalized_weights_by_column |-> <<>>, weighted_normalized_matrix |-> <<>>,
     ideal_best_by_column |-> <<>>, ideal_worst_by_column |-> <<>>,
     distances_to_best |-> <<>>, distances_to_worst |-> <<>>, topsis_scores |-> <<>>,
     ranking_dataframe |-> EmptyRanking]

compute_topsis_details(df, selected, weights_by_name, impacts_by_name) ==
    LET valid == valid_criteria_columns(df, selected)
        k == Len(valid)
        n == Len(df.rows)
    IN  IF n = 0 \/ k = 0 THEN Return(NoDetails)
        ELSE IF \E j \in 1..k : ~InColumns(valid[j], df) THEN Raise
        ELSE
          LET decision == build_decision_matrix(df, valid)
              normalized == vector_normalize(decision, k)
              weights == normalize_weights([j \in 1..k |-> weights_by_name[valid[j]]])
              weighted == weight_matrix(normalized, weights, k)
              best == [j \in 1..k |-> ideal_best(weighted, impacts_by_name[valid[j]], j)]
              worst == [j \in 1..k |-> ideal_worst(weighted, impacts_by_name[valid[j]], j)]
              to_best == [i \in 1..n |-> distance_to(weighted[i], best)]
              to_worst == [i \in 1..n |-> distance_to(weighted[i], worst)]
              scores == [i \in 1..n |-> topsis_score(to_best[i], to_worst[i])]
          IN  Return([valid_criteria_columns |-> valid,
                      decision_matrix |-> decision,
                      normalized_matrix |-> normalized,
                      normalized_weights_by_column |-> weights,
                      weighted_normalized_matrix |-> weighted,
                      ideal_best_by_column |-> best,
                      ideal_worst_by_column |-> worst,
                      distances_to_best |-> to_best,
                      distances_to_worst |-> to_worst,
                      topsis_scores |-> scores,
                      ranking_dataframe |->
                          build_ranking_dataframe(df, scores, rank_by_score(scores, n))])

-----------------------------------------------------------------------------
(* The inputs of the TOPSIS engine: tables with the criteria columns cost  *)
(* and quality, whose row r lies at (r, -r); the example of two points of  *)
(* cost 10 and 20; selections that may name "ghost", a column no table has.*)

MaxTopsisPoints == 2

CostCells == {F(0), F(1), F(2)}
QualityCells == {F(1), F(3), NaN}

TopsisTable(values) ==
    DataFrame(<<"longitude", "latitude", "cost", "quality">>,
        [r \in 1..Len(values) |-> <<F(r), F(0 - r), values[r][1], values[r][2]>>])

TopsisTables ==
    {TopsisTable(values) : values \in SeqsUpTo(CostCells \X QualityCells, MaxTopsisPoints)}

CostExampleTable ==
    DataFrame(<<"longitude", "latitude", "cost">>,
        << <<F(1), F(0 - 1), F(10)>>, <<F(2), F(0 - 2), F(20)>> >>)

CriterionNames == {"cost", "quality", "ghost"}

Selections ==
    {<<>>, <<"cost">>, <<"quality">>, <<"cost", "quality">>, <<"quality", "cost">>,
     <<"ghost">>, <<"cost", "ghost">>}

WeightChoices ==
    {[cost |-> c, quality |-> q, ghost |-> 1] :
        <<c, q>> \in {<<1, 1>>, <<0, 0>>, <<2, 1>>, <<0, 1>>}}

ImpactChoices ==
    {[cost |-> c, quality |-> q, ghost |-> "benefit"] :
        c \in {"benefit", "cost"}, q \in {"benefit", "cost"}}

InitTopsis ==
    /\ called = "none"
    /\ points_dataframe \in TopsisTables \cup {CostExampleTable}
    /\ marker_positions = NoMarkers
    /\ default_transport_rate = 1
    /\ default_mass = 1
    /\ criteria_columns \in Selections
    /\ criteria_weights_by_name \in WeightChoices
    /\ criteria_impacts_by_name \in ImpactChoices
    /\ uploaded_file = NoFile
    /\ all_drawings = NoDrawings
    /\ NoScript
    /\ result = Return(NoneFrame)

CallTopsis ==
    /\ called = "none"
    /\ called' = "compute_topsis_details"
    /\ result' = compute_topsis_details(points_dataframe, criteria_columns,
                    criteria_weights_by_name, criteria_impacts_by_name)
    /\ UNCHANGED arguments
    /\ UNCHANGED script

NextTopsis == CallTopsis

SpecTopsis == InitTopsis /\ [][NextTopsis]_vars

-----------------------------------------------------------------------------
(* read_points_from_uploaded_file (src/logic.py 138-155).  An uploaded     *)
(* file is a record [none, name, format, table]: its name, the format of   *)
(* its bytes ("csv", "excel" or "garbage") and the table the parser of     *)
(* that format reads from it.                                              *)

\* str(...).lower() on the file names of the model.
lower(name) ==
    CASE name = "Points.CSV"  -> "points.csv"
      [] name = "POINTS.XLSX" -> "points.xlsx"
      [] OTHER                -> name

\* name.endswith(suffix) on the lower-cased file names of the model.
endswith(name, suffix) ==
    \/ suffix = ".csv" /\ name = "points.csv"
    \/ suffix = ".xlsx" /\ name = "points.xlsx"
    \/ suffix = ".xls" /\ name = "points.xls"

\* pd.read_csv and pd.read_excel raise on bytes that are not of their format.
read_csv(file) == IF file.format = "csv" THEN Return(file.table) ELSE Raise

read_excel(file) == IF file.format = "excel" THEN Return(file.table) ELSE Raise

read_points_from_uploaded_file(file) ==
    IF file.none THEN Return(EmptyPointsFrame)
    ELSE
      LET uploaded_name == lower(file.name)
          parsed == IF endswith(uploaded_name, ".csv") THEN read_csv(file)
                    ELSE IF endswith(uploaded_name, ".xlsx") \/ endswith(uploaded_name, ".xls")
                    THEN read_excel(file)
                    ELSE read_csv(file)
      IN  IF parsed.raised THEN Return(EmptyPointsFrame)
          ELSE ensure_points_dataframe(parsed.value)

-----------------------------------------------------------------------------
(* The inputs of the file reader.  A parsed table has at least one column  *)
(* and its headers are pairwise different as they are spelt: the parsers   *)
(* rename a repeated header.                                               *)

FileNames == {"points.csv", "Points.CSV", "POINTS.XLSX", "points.xls", "points.txt", ""}
FileFormats == {"csv", "excel", "garbage"}

UploadHeaders == {" Lon ", "lon", "lat", "foo"}

ParsedTables ==
    {T \in {HeaderTable(h, n) : h \in SeqsUpTo(UploadHeaders, MaxCols), n \in 0..1} :
        /\ Len(T.columns) >= 1
        /\ \A i, j \in 1..Len(T.columns) : i # j => T.columns[i] # T.columns[j]}

UploadedFiles ==
    {[none |-> FALSE, name |-> name, format |-> format, table |-> T] :
        name \in FileNames, format \in FileFormats, T \in ParsedTables}

InitUpload ==
    /\ called = "none"
    /\ points_dataframe = NoneFrame
    /\ marker_positions = NoMarkers
    /\ default_transport_rate = 1
    /\ default_mass = 1
    /\ NoCriteria
    /\ uploaded_file \in UploadedFiles \cup {NoFile}
    /\ all_drawings = NoDrawings
    /\ NoScript
    /\ result = Return(NoneFrame)

CallReadPoints ==
    /\ called = "none"
    /\ called' = "read_points_from_uploaded_file"
    /\ result' = read_points_from_uploaded_file(uploaded_file)
    /\ UNCHANGED arguments
    /\ UNCHANGED script

NextUpload == CallReadPoints

SpecUpload == InitUpload /\ [][NextUpload]_vars

-----------------------------------------------------------------------------
(* extract_marker_positions_from_drawings (src/logic.py 213-243).  The     *)
(* value of all_drawings is a record [kind, items]: None, a dict (items    *)
(* are its values in order), a list, or a value of another type.  A        *)
(* feature is [kind, geometry], a geometry [kind, type, coordinates] and   *)
(* the coordinates [kind, items]; kind tells the Python type of each.      *)

PyNone == [kind |-> "none", val |-> 0]

\* float(value): the number of a number or of a string that spells one, an
\* exception (TypeError, ValueError) for None and for any other string.
float(value) ==
    CASE value.kind \in {"float", "inf", "tiny"} -> Return(value)
      [] value.kind = "numstr" -> Return(F(value.val))
      [] OTHER -> Raise

NoMarker == [skipped |-> TRUE, position |-> <<>>]

\* A feature read without looking at the type of its geometry.
marker_of_feature_of_any_type(feature) ==
    IF feature.kind # "dict" THEN NoMarker
    ELSE IF feature.geometry.kind # "dict" THEN NoMarker
    ELSE LET coords == feature.geometry.coordinates
         IN  IF coords.kind \notin {"list", "tuple"} \/ Len(coords.items) < 2 THEN NoMarker
             ELSE IF float(coords.items[1]).raised \/ float(coords.items[2]).raised
             THEN NoMarker
             ELSE [skipped |-> FALSE,
                   position |-> <<float(coords.items[1]).value,
                                  float(coords.items[2]).value>>]

\* Lines 226-241: the body of the loop, for one feature.
marker_of_feature(feature) ==
    IF feature.kind # "dict" THEN NoMarker
    ELSE IF feature.geometry.kind # "dict" THEN NoMarker
    ELSE IF feature.geometry.type # "Point" THEN NoMarker
    ELSE LET coords == feature.geometry.coordinates
         IN  IF coords.kind \notin {"list", "tuple"} \/ Len(coords.items) < 2 THEN NoMarker
             ELSE IF float(coords.items[1]).raised \/ float(coords.items[2]).raised
             THEN NoMarker
             ELSE [skipped |-> FALSE,
                   position |-> <<float(coords.items[1]).value,
                                  float(coords.items[2]).value>>]

\* Lines 226-241: the loop over the first i features.
RECURSIVE collect_markers(_, _)
collect_markers(drawings, i) ==
    IF i = 0 THEN <<>>
    ELSE LET marker == marker_of_feature(drawings[i])
             front == collect_markers(drawings, i - 1)
         IN  IF marker.skipped THEN front ELSE Append(front, marker.position)

extract_marker_positions_from_drawings(drawings) ==
    IF drawings.kind = "none" THEN Return(<<>>)
    ELSE IF drawings.kind \in {"dict", "list"}
    THEN Return(collect_markers(drawings.items, Len(drawings.items)))
    ELSE Return(<<>>)

-----------------------------------------------------------------------------
(* The inputs of extract_marker_positions_from_drawings.                   *)

MaxDrawings == 2    \* features of a collection of drawings

Coordinates(kind, items) == [kind |-> kind, items |-> items]

NoCoordinates == Coordinates("missing", <<>>)

PointCoordinates ==
    {NoCoordinates, Coordinates("other", <<>>),
     Coordinates("list", <<>>), Coordinates("list", <<F(1)>>),
     Coordinates("list", <<F(1), F(2)>>), Coordinates("list", <<S(3), F(4)>>),
     Coordinates("list", <<Text, F(1)>>), Coordinates("list", <<F(1), PyNone>>),
     Coordinates("list", <<F(1), F(2), F(5)>>),
     Coordinates("tuple", <<F(2), F(1)>>), Coordinates("tuple", <<Inf, F(1)>>)}

Geometry(type, coordinates) == [kind |-> "dict", type |-> type, coordinates |-> coordinates]

NoGeometry == [kind |-> "missing", type |-> "<None>", coordinates |-> NoCoordinates]

Geometries ==
    {Geometry("Point", c) : c \in PointCoordinates}
        \cup {Geometry("Polygon", Coordinates("list", <<F(1), F(2)>>)),
              Geometry("<None>", Coordinates("list", <<F(1), F(2)>>)),
              NoGeometry,
              [kind |-> "other", type |-> "<None>", coordinates |-> NoCoordinates]}

Features ==
    {[kind |-> "dict", geometry |-> g] : g \in Geometries}
        \cup {[kind |-> "other", geometry |-> NoGeometry]}

Drawings ==
    {[kind |-> kind, items |-> items] :
        kind \in {"dict", "list"}, items \in SeqsUpTo(Features, MaxDrawings)}
        \cup {NoDrawings, [kind |-> "other", items |-> <<>>]}

InitExtract ==
    /\ called = "none"
    /\ points_dataframe = NoneFrame
    /\ marker_positions = NoMarkers
    /\ default_transport_rate = 1
    /\ default_mass = 1
    /\ NoCriteria
    /\ uploaded_file = NoFile
    /\ all_drawings \in Drawings
    /\ NoScript
    /\ result = Return(NoneFrame)

CallExtract ==
    /\ called = "none"
    /\ called' = "extract_marker_positions_from_drawings"
    /\ result' = extract_marker_positions_from_drawings(all_drawings)
    /\ UNCHANGED arguments
    /\ UNCHANGED script

NextExtract == CallExtract

SpecExtract == InitExtract /\ [][NextExtract]_vars

-----------------------------------------------------------------------------
(* append_point (src/logic.py 123-135) and points_dataframe_signature      *)
(* (src/logic.py 333-345).                                                 *)

\* pd.concat([df, new_row], ignore_index=True)
append_point(input, longitude, latitude, transport_rate, mass) ==
    Bind(ensure_points_dataframe(input), LAMBDA ensured :
        IF ensured.raised THEN ensured
        ELSE Return(DataFrame(CanonicalColumns,
                Append(ensured.value.rows,
                       <<F(longitude), F(latitude), F(transport_rate), F(mass)>>))))

\* round(float(x), 8): a whole number is its own rounding, a number of the size
\* of 2.5e-13 rounds to 0.0, an infinity and a NaN stay.
round8(cell) == IF cell.kind = "tiny" THEN F(0) ELSE cell

points_dataframe_signature(input) ==
    Bind(ensure_points_dataframe(input), LAMBDA ensured :
        IF ensured.raised THEN ensured
        ELSE Return([r \in 1..Len(ensured.value.rows) |->
                        [k \in 1..4 |-> round8(ensured.value.rows[r][k])]]))

-----------------------------------------------------------------------------
(* The script of src/app.py (265-454).  The session is the record          *)
(* session_state with the keys the script reads and writes; the keys of    *)
(* the centre and zoom of the map, which no other statement reads, are     *)
(* left out.  A step of the script takes the session and gives the session *)
(* it leaves.  The tables the session holds come from the normaliser, so   *)
(* that ensure_points_dataframe does not raise on them.                    *)

\* Lines 267-286: the keys set when the session starts.
InitialSession ==
    [points_dataframe |-> EmptyPointsFrame,
     map_default_transport_rate |-> 1,
     map_default_mass |-> 1,
     map_marker_positions_snapshot |-> <<>>]

\* An upload that replaces the table of the session whatever its number of rows.
store_uploaded_points_always(session, uploaded_points_dataframe) ==
    [session EXCEPT !.points_dataframe = uploaded_points_dataframe]

\* Lines 300-301.
store_uploaded_points(session, uploaded_points_dataframe) ==
    IF Len(uploaded_points_dataframe.rows) > 0
    THEN [session EXCEPT !.points_dataframe = uploaded_points_dataframe]
    ELSE session

\* Lines 297-301: an exception of read_points_from_uploaded_file ends the run.
handle_upload(session, file) ==
    IF file.none THEN Return(session)
    ELSE Bind(read_points_from_uploaded_file(file), LAMBDA uploaded :
            IF uploaded.raised THEN Raise
            ELSE Return(store_uploaded_points(session, uploaded.value)))

\* streamlit.data_editor: the table the user leaves in the editor.  edit tells
\* what the user did: nothing, deleted the last row, added a row with
\* coordinates only, or added a row without longitude.
data_editor(points, edit) ==
    CASE edit = "delete" /\ Len(points.rows) > 0 ->
            DataFrame(points.columns, SubSeq(points.rows, 1, Len(points.rows) - 1))
      [] edit = "add" -> DataFrame(points.columns, Append(points.rows, <<F(1), F(1), NaN, NaN>>))
      [] edit = "blank" -> DataFrame(points.columns, Append(points.rows, <<NaN, F(1), F(2), F(3)>>))
      [] OTHER -> points

\* Lines 303-314.
handle_editor(session, edit) ==
    Bind(ensure_points_dataframe(session.points_dataframe).value, LAMBDA points :
    Bind(data_editor(points, edit), LAMBDA edited_points_dataframe :
        [session EXCEPT
            !.points_dataframe = ensure_points_dataframe(edited_points_dataframe).value]))

\* Lines 325-326; manual_point is <<longitude, latitude, transport_rate, mass>>.
handle_manual_point(session, add_manual_point_button, manual_point) ==
    IF add_manual_point_button
    THEN [session EXCEPT !.points_dataframe =
            append_point(session.points_dataframe, manual_point[1], manual_point[2],
                         manual_point[3], manual_point[4]).value]
    ELSE session

\* Lines 328-331.
handle_clear(session, clear_points_button) ==
    IF clear_points_button
    THEN [session EXCEPT !.points_dataframe = EmptyPointsFrame,
                         !.map_marker_positions_snapshot = <<>>]
    ELSE session

\* Lines 351-352: the session takes the values of the number inputs "Domyślne ST"
\* and "Domyślne M"; default_inputs is <<rate, mass>>.
handle_default_inputs(session, default_inputs) ==
    [session EXCEPT !.map_default_transport_rate = default_inputs[1],
                    !.map_default_mass = default_inputs[2]]

\* Line 440: the rounded coordinates of the markers.
marker_positions_signature_of(markers) ==
    [j \in 1..Len(markers) |-> <<round8(markers[j][1]), round8(markers[j][2])>>]

\* The markers as the reconciler of the model takes them: pairs of numbers.
marker_list(markers) ==
    [none |-> FALSE, items |-> [j \in 1..Len(markers) |-> <<markers[j][1].val, markers[j][2].val>>]]

\* A script that forgets the markers it has seen.
store_snapshot_skipped(session, marker_positions_signature) == session

\* Line 451.
store_snapshot(session, marker_positions_signature) ==
    [session EXCEPT !.map_marker_positions_snapshot = marker_positions_signature]

\* A script that replaces the table and asks for a rerun after every reconciliation.
store_synchronized_always(session, synchronized_points_dataframe, previous_signature) ==
    [session |-> [session EXCEPT !.points_dataframe = synchronized_points_dataframe],
     rerun |-> TRUE]

\* Lines 450-454.
store_synchronized(session, synchronized_points_dataframe, previous_signature) ==
    IF points_dataframe_signature(synchronized_points_dataframe).value # previous_signature
    THEN [session |-> [session EXCEPT !.points_dataframe = synchronized_points_dataframe],
          rerun |-> TRUE]
    ELSE [session |-> session, rerun |-> FALSE]

\* Lines 438-454, map_interaction being a dict: the session the handling leaves,
\* whether it reconciled, and whether it called streamlit.rerun().
handle_map_interaction(session, drawings) ==
    Bind(extract_marker_positions_from_drawings(drawings).value, LAMBDA markers :
    Bind(marker_positions_signature_of(markers), LAMBDA marker_positions_signature :
        IF marker_positions_signature # session.map_marker_positions_snapshot
        THEN Bind(ensure_points_dataframe(session.points_dataframe).value,
                  LAMBDA previous_points_dataframe :
             Bind(points_dataframe_signature(previous_points_dataframe).value,
                  LAMBDA previous_signature :
             Bind(synchronize_points_dataframe_with_marker_positions(
                        previous_points_dataframe, marker_list(markers),
                        session.map_default_transport_rate,
                        session.map_default_mass).value,
                  LAMBDA synchronized_points_dataframe :
             Bind(store_synchronized(
                        store_snapshot(session, marker_positions_signature),
                        synchronized_points_dataframe, previous_signature),
                  LAMBDA stored :
                [session |-> stored.session, reconciled |-> TRUE, rerun |-> stored.rerun,
                 marker_positions_signature |-> marker_positions_signature]))))
        ELSE [session |-> session, reconciled |-> FALSE, rerun |-> FALSE,
              marker_positions_signature |-> marker_positions_signature]))

MaxSessionPoints == 2   \* rows the user may bring the table of the session to
MaxDrawnMarkers == 1    \* features the map reports
MaxCounted == 2         \* the counters of reconciliations and reruns stop here

\* A counter of the history of the runs, held at MaxCounted.
count_up(n, happened) == IF happened /\ n < MaxCounted THEN n + 1 ELSE n

NoneCounted == [runs |-> 0, reconciliations |-> 0, reruns |-> 0]

\* One run of the script, from the first line to the last or to the exception
\* or the streamlit.rerun() that ends it.  The record tells the session at the
\* marks of the run and what the handling of the map did; counted holds the
\* number of runs since the user last acted, and of reconciliations and reruns
\* since the drawings last changed.
run_script(session, file, edit, add_manual_point_button, manual_point, clear_points_button, default_inputs, drawings, counted) ==
    Bind(handle_upload(session, file), LAMBDA uploaded :
        IF uploaded.raised
        THEN [kind |-> "run", raised |-> TRUE, start |-> session, after_upload |-> session,
              clear_points_button |-> FALSE, after_clear |-> session,
              before_map |-> session, end |-> session,
              marker_positions_signature |-> <<>>,
              reconciled |-> FALSE, rerun |-> FALSE,
              \* the map is not drawn and loses the drawings it held
              counted |-> IF drawings = NoDrawings
                          THEN [counted EXCEPT !.runs = counted.runs + 1]
                          ELSE [NoneCounted EXCEPT !.runs = counted.runs + 1]]
        ELSE Bind(handle_editor(uploaded.value, edit), LAMBDA edited :
             Bind(handle_manual_point(edited, add_manual_point_button, manual_point),
                  LAMBDA added :
             Bind(handle_clear(added, clear_points_button), LAMBDA cleared :
             Bind(handle_default_inputs(cleared, default_inputs), LAMBDA with_defaults :
             Bind(handle_map_interaction(with_defaults, drawings), LAMBDA map :
                 [kind |-> "run", raised |-> FALSE, start |-> session,
                  after_upload |-> uploaded.value,
                  clear_points_button |-> clear_points_button, after_clear |-> cleared,
                  before_map |-> with_defaults, end |-> map.session,
                  marker_positions_signature |-> map.marker_positions_signature,
                  reconciled |-> map.reconciled, rerun |-> map.rerun,
                  counted |-> [runs |-> counted.runs + 1,
                               reconciliations |->
                                  count_up(counted.reconciliations, map.reconciled),
                               reruns |-> count_up(counted.reruns, map.rerun)]]))))))

-----------------------------------------------------------------------------
(* The runs of the script of src/app.py.  The page is loaded, and the      *)
(* script runs; then the user does one thing on a widget the last run drew, *)
(* and the script runs; a run that called streamlit.rerun() is followed at  *)
(* once by a run in which the widgets are as they were: the same file, the  *)
(* same drawings, no button pressed, the editor showing the table it is     *)
(* given.  A run that ends in the exception of line 299 draws the uploader  *)
(* and nothing below it: the editor, the inputs, the buttons and the map    *)
(* (line 412) are not on the page, and the map loses its drawings.          *)

\* The counters a run the user starts takes over: the runs start again, and so
\* do the reconciliations and reruns when the drawings have changed.
counted_so_far(drawings) ==
    IF script_run.kind = "none" \/ drawings # all_drawings THEN NoneCounted
    ELSE [script_run.counted EXCEPT !.runs = 0]

AppPosition == {<<0, 0>>, <<1, 1>>}

\* The files of the uploader: a point with its rate and mass, a file no parser
\* reads, a row without a number, and a lone column "lon".
AppFiles ==
    {[none |-> FALSE, name |-> "points.csv", format |-> "csv",
      table |-> DataFrame(<<"lon", "lat", "st", " M">>, << <<F(1), F(1), F(2), F(3)>> >>)],
     [none |-> FALSE, name |-> "points.csv", format |-> "garbage", table |-> NoneFrame],
     [none |-> FALSE, name |-> "points.csv", format |-> "csv",
      table |-> DataFrame(<<"lon", "lat">>, << <<Text, F(1)>> >>)],
     [none |-> FALSE, name |-> "points.csv", format |-> "csv",
      table |-> DataFrame(<<"lon">>, << <<F(1)>> >>)]}

ManualPoints == {<<0, 0, 2, 3>>, <<1, 1, 1, 1>>}

PointFeature(position) ==
    [kind |-> "dict",
     geometry |-> Geometry("Point", Coordinates("list", <<F(position[1]), F(position[2])>>))]

AppFeatures ==
    {PointFeature(p) : p \in AppPosition}
        \cup {[kind |-> "dict",
               geometry |-> Geometry("Polygon", Coordinates("list", <<F(1), F(2)>>))]}

\* The value of all_drawings that st_folium reports.
AppDrawings ==
    {[kind |-> "list", items |-> items] : items \in SeqsUpTo(AppFeatures, MaxDrawnMarkers)}
        \cup {NoDrawings}

InitApp ==
    /\ called = "none"
    /\ points_dataframe = NoneFrame
    /\ marker_positions = NoMarkers
    /\ default_transport_rate = 1
    /\ default_mass = 1
    /\ NoCriteria
    /\ uploaded_file = NoFile
    /\ all_drawings = NoDrawings
    /\ session_state = InitialSession
    /\ script_run = NoRun
    /\ result = Return(NoneFrame)

\* The functions the script calls take their arguments from the session.
UNCHANGED_call ==
    UNCHANGED <<called, points_dataframe, marker_positions, default_transport_rate,
                default_mass, criteria_columns, criteria_weights_by_name,
                criteria_impacts_by_name, result>>

\* The page stands: a run has ended and has not asked for a rerun.  The uploader
\* (line 297) is drawn by every run.
UserMayAct == script_run.kind = "run" /\ ~script_run.rerun

\* The last run went past line 299 and drew the widgets below the uploader, down
\* to the map of line 412.
DrawnBelowUploader == UserMayAct /\ ~script_run.raised

\* The number inputs as the last run left them.
default_inputs_so_far ==
    <<session_state.map_default_transport_rate, session_state.map_default_mass>>

Run(file, edit, add_manual_point_button, manual_point, clear_points_button, default_inputs, drawings, counted) ==
    \E run \in {run_script(session_state, file, edit, add_manual_point_button,
                             manual_point, clear_points_button, default_inputs,
                             drawings, counted)} :
        /\ script_run' = run
        /\ session_state' = run.end
        /\ uploaded_file' = file
        /\ all_drawings' = IF run.raised THEN NoDrawings ELSE drawings
        /\ UNCHANGED_call

\* The page is loaded: the first run, with no file and no drawing.
RunOnLoad ==
    /\ script_run.kind = "none"
    /\ Run(NoFile, "none", FALSE, <<0, 0, 0, 0>>, FALSE, default_inputs_so_far, NoDrawings, NoneCounted)

\* The user puts a file into the uploader, or takes it out.
RunAfterUpload ==
    /\ UserMayAct
    /\ \E file \in AppFiles \cup {NoFile} :
        /\ file # uploaded_file
        /\ Run(file, "none", FALSE, <<0, 0, 0, 0>>, FALSE, default_inputs_so_far, all_drawings, counted_so_far(all_drawings))

\* The user edits the table.
RunAfterEdit ==
    /\ DrawnBelowUploader
    /\ \E edit \in {"delete", "add", "blank"} :
        /\ edit # "delete" => Len(session_state.points_dataframe.rows) < MaxSessionPoints
        /\ Run(uploaded_file, edit, FALSE, <<0, 0, 0, 0>>, FALSE, default_inputs_so_far, all_drawings, counted_so_far(all_drawings))

\* The user presses "Dodaj punkt".
RunAfterAddPoint ==
    /\ DrawnBelowUploader
    /\ Len(session_state.points_dataframe.rows) < MaxSessionPoints
    /\ \E manual_point \in ManualPoints :
        Run(uploaded_file, "none", TRUE, manual_point, FALSE, default_inputs_so_far, all_drawings, counted_so_far(all_drawings))

\* The user presses "Wyczyść wszystkie punkty".
RunAfterClear ==
    /\ DrawnBelowUploader
    /\ Run(uploaded_file, "none", FALSE, <<0, 0, 0, 0>>, TRUE, default_inputs_so_far, all_drawings, counted_so_far(all_drawings))

\* The user types another default rate and mass for the points of the map.
RunAfterDefaults ==
    /\ DrawnBelowUploader
    /\ \E default_inputs \in DefaultPairs :
        /\ default_inputs # default_inputs_so_far
        /\ Run(uploaded_file, "none", FALSE, <<0, 0, 0, 0>>, FALSE, default_inputs, all_drawings, counted_so_far(all_drawings))

\* The user draws, moves or deletes a marker on the map.
RunAfterDrawing ==
    /\ DrawnBelowUploader
    /\ \E drawings \in AppDrawings :
        /\ drawings # all_drawings
        /\ Run(uploaded_file, "none", FALSE, <<0, 0, 0, 0>>, FALSE, default_inputs_so_far, drawings, counted_so_far(drawings))

\* The run that streamlit.rerun() starts.
RunAfterRerun ==
    /\ script_run.kind = "run"
    /\ script_run.rerun
    /\ Run(uploaded_file, "none", FALSE, <<0, 0, 0, 0>>, FALSE, default_inputs_so_far, all_drawings, script_run.counted)

NextApp ==
    \/ RunOnLoad
    \/ RunAfterUpload
    \/ RunAfterEdit
    \/ RunAfterAddPoint
    \/ RunAfterClear
    \/ RunAfterDefaults
    \/ RunAfterDrawing
    \/ RunAfterRerun

SpecApp == InitApp /\ [][NextApp]_vars

-----------------------------------------------------------------------------
(* update_topsis_state_for_available_criteria (src/ui.py 180-207).  The    *)
(* session is the record session_state with the four keys the function     *)
(* reads and writes; a dict is a function from its keys.                   *)

\* dict.get(key, default) that never finds the key.
get_default_only(dict, key, default) == default

\* dict.get(key, default)
get(dict, key, default) == IF key \in DOMAIN dict THEN dict[key] ELSE default

\* [str(c).strip().lower() for c in names if str(c).strip()]
stripped_lower_names(names) ==
    LET kept == SelectSeq(names, LAMBDA c : strip_lower(c) # "")
    IN  [i \in 1..Len(kept) |-> strip_lower(kept[i])]

InList(name, names) == \E i \in 1..Len(names) : names[i] = name

\* A selection that is left empty when nothing of it is available.
selected_or_all_without_fallback(selected_criteria_columns, available_criteria_columns) ==
    selected_criteria_columns

\* Lines 187-188.
selected_or_all(selected_criteria_columns, available_criteria_columns) ==
    IF Len(selected_criteria_columns) = 0 /\ Len(available_criteria_columns) > 0
    THEN available_criteria_columns
    ELSE selected_criteria_columns

\* Lines 181-188: the selection the call stores.
updated_selection(session, available_criteria_columns) ==
    LET selected == stripped_lower_names(session.topsis_selected_criteria_columns)
        available == stripped_lower_names(available_criteria_columns)
    IN  selected_or_all(SelectSeq(selected, LAMBDA c : InList(c, available)), available)

update_topsis_state_for_available_criteria(session, available_criteria_columns) ==
    LET selected == updated_selection(session, available_criteria_columns)
        keys == {selected[i] : i \in 1..Len(selected)}
    IN  [session EXCEPT
            !.topsis_selected_criteria_columns = selected,
            !.topsis_criteria_weights =
                [c \in keys |-> get(session.topsis_criteria_weights, c, 1)],
            !.topsis_criteria_impacts =
                [c \in keys |-> strip_lower(get(session.topsis_criteria_impacts, c, "benefit"))],
            !.topsis_default_values_by_criteria =
                [c \in keys |-> get(session.topsis_default_values_by_criteria, c, 1)]]

-----------------------------------------------------------------------------
(* The inputs of update_topsis_state_for_available_criteria.  The session  *)
(* is as src/ui.py leaves it before a call: the selection is a list of     *)
(* trimmed, lower-case names (line 647), and the three dicts have the keys *)
(* of an earlier selection (lines 204-206, 694-696) or none (lines 43-50,  *)
(* 869-872).  The available columns are any list of names.                 *)

MaxCriteria == 2    \* names of a selection and of a list of available columns

SessionCriteria == {"cost", "time"}

AvailableNames == {"cost", "time", " Cost", "  "}

\* What the page stores for a criterion: weight, impact, default value.
CriterionSettings == {<<1, "benefit", 1>>, <<2, "cost", 5>>}

TopsisSessions ==
    {[topsis_selected_criteria_columns |-> selected,
      topsis_criteria_weights |-> [c \in DOMAIN settings |-> settings[c][1]],
      topsis_criteria_impacts |-> [c \in DOMAIN settings |-> settings[c][2]],
      topsis_default_values_by_criteria |-> [c \in DOMAIN settings |-> settings[c][3]]] :
        selected \in SeqsUpTo(SessionCriteria, MaxCriteria),
        settings \in UNION {[keys -> CriterionSettings] : keys \in SUBSET SessionCriteria}}

InitCriteria ==
    /\ called = "none"
    /\ points_dataframe = NoneFrame
    /\ marker_positions = NoMarkers
    /\ default_transport_rate = 1
    /\ default_mass = 1
    /\ criteria_columns \in SeqsUpTo(AvailableNames, MaxCriteria)
    /\ criteria_weights_by_name = <<>>
    /\ criteria_impacts_by_name = <<>>
    /\ uploaded_file = NoFile
    /\ all_drawings = NoDrawings
    /\ session_state \in TopsisSessions
    /\ script_run = NoRun
    /\ result = Return(NoneFrame)

\* The call: criteria_columns holds the argument available_criteria_columns, and
\* script_run keeps the session the call found.
CallUpdateTopsisState ==
    /\ called = "none"
    /\ called' = "update_topsis_state_for_available_criteria"
    /\ session_state' =
            update_topsis_state_for_available_criteria(session_state, criteria_columns)
    /\ script_run' = [kind |-> "call", before |-> session_state]
    /\ UNCHANGED arguments
    /\ UNCHANGED result

NextCriteria == CallUpdateTopsisState

SpecCriteria == InitCriteria /\ [][NextCriteria]_vars

-----------------------------------------------------------------------------
(* The page of src/ui.py (run_app, lines 1003-1031): one run of the script *)
(* from the session the last run left.  Of the points table the page keeps *)
(* its columns and, of each row, one value that stands for its cells:      *)
(* "new" for a row as it was added, "edited" for a row the user has        *)
(* changed, "nan" for a row whose cells are NaN.  The functions the page   *)
(* imports from logic are taken by what they give to the lines that write  *)
(* the session.                                                            *)

UiTable(columns, rows) == [columns |-> columns, rows |-> rows]

\* The rows of a table of length rows as they were added.
UiRows(length) == [i \in 1..length |-> "new"]

\* The state of the map widget under its key: no click yet.
NoMapState == [key |-> -1, last_clicked |-> PyNone]

\* init_session_state: the keys the page writes with the points table, the
\* criteria and the key of the map; interactive_folium_map is the state the map
\* widget keeps under its key, and widgets_drawn the widgets the last run drew,
\* which are the widgets the user can act on.
InitialUiSession ==
    [points_dataframe |-> UiTable(<<"longitude", "latitude">>, <<>>),
     active_page |-> "Obliczenia",
     calculation_method |-> "Srodek ciezkosci",
     topsis_selected_criteria_columns |-> <<>>,
     topsis_criteria_weights |-> <<>>,
     topsis_criteria_impacts |-> <<>>,
     topsis_default_values_by_criteria |-> <<>>,
     interactive_folium_map_key_version |-> 0,
     map_last_clicked |-> PyNone,
     interactive_folium_map |-> NoMapState,
     widgets_drawn |-> {}]

\* A run so far: the session, the assignments of the points table it has made
\* and whether it has stored another calculation method.  No widget is drawn yet.
StartOfRun(session) ==
    [session |-> [session EXCEPT !.widgets_drawn = {}],
     replaced |-> 0, replaced_by |-> {}, method_changed |-> FALSE]

\* The run reaches the line that draws the widget.
draw(ui, widget) == [ui EXCEPT !.session.widgets_drawn = @ \cup {widget}]

\* A bump that leaves the version.
bump_interactive_folium_map_key_skipped(ui) == ui

bump_interactive_folium_map_key(ui) ==
    [ui EXCEPT !.session.interactive_folium_map_key_version = @ + 1]

\* st.session_state["points_dataframe"] = table, at the place named.
assign_points_dataframe(ui, table, place) ==
    [ui EXCEPT !.session.points_dataframe = table,
               !.replaced = @ + 1,
               !.replaced_by = @ \cup {place}]

render_sidebar_menu(ui, active_page, calculation_method) ==
    LET chosen == [draw(ui, "menu") EXCEPT !.session.active_page = active_page]
    IN  IF calculation_method # chosen.session.calculation_method
        THEN bump_interactive_folium_map_key(
                [chosen EXCEPT !.session.calculation_method = calculation_method,
                               !.method_changed = TRUE])
        ELSE chosen

\* The pages without the map: the map widget is not drawn and loses its state.
render_other_page(ui) == [ui EXCEPT !.session.interactive_folium_map = NoMapState]

\* ensure_points_dataframe(table, include_transport_rate_and_mass): the columns of
\* the table it gives.
ensured_columns(columns, include_transport_rate_and_mass) ==
    IF include_transport_rate_and_mass
    THEN columns \o SelectSeq(<<"transport_rate", "mass">>, LAMBDA c : ~InList(c, columns))
    ELSE columns

\* ensure_points_dataframe(table, include_transport_rate_and_mass): the rows
\* without coordinates are dropped.
ui_ensure_points_dataframe(table, include_transport_rate_and_mass) ==
    UiTable(ensured_columns(table.columns, include_transport_rate_and_mass),
            SelectSeq(table.rows, LAMBDA row : row # "nan"))

\* points_dataframe_signature(table): the values of the rows of the ensured table.
ui_points_dataframe_signature(table) == ui_ensure_points_dataframe(table, TRUE).rows

\* The columns of a table that can be criteria: those that are not coordinates.
get_topsis_candidate_criteria_columns(table) ==
    SelectSeq(table.columns, LAMBDA c : c # "longitude" /\ c # "latitude")

\* update_topsis_state_for_available_criteria(
\*     get_topsis_candidate_criteria_columns(ensure_points_dataframe(table, False)))
\* on the table of the session.
update_topsis_state_for_points(ui) ==
    [ui EXCEPT !.session =
        update_topsis_state_for_available_criteria(
            @, get_topsis_candidate_criteria_columns(
                    ui_ensure_points_dataframe(@.points_dataframe, FALSE)))]

\* compute_result_marker_for_map, lines 885-886: on the TOPSIS page the state of
\* the criteria is updated.
compute_result_marker_for_map(ui) ==
    IF ui.session.calculation_method = "TOPSIS" THEN update_topsis_state_for_points(ui)
    ELSE ui

\* The click the map widget holds under the current key is stored, and the map is
\* drawn under that key.
render_map(ui) ==
    LET current_map_key == ui.session.interactive_folium_map_key_version
        previous_map_interaction == ui.session.interactive_folium_map
        returned_last_clicked ==
            IF previous_map_interaction.key = current_map_key
            THEN previous_map_interaction.last_clicked
            ELSE PyNone
    IN  [compute_result_marker_for_map(ui) EXCEPT
            !.session.map_last_clicked =
                IF returned_last_clicked # PyNone THEN returned_last_clicked ELSE @,
            !.session.interactive_folium_map =
                [key |-> current_map_key, last_clicked |-> returned_last_clicked]]

\* The table of the reader of the page: the table read from the file, empty when
\* the file cannot be read.
read_points_from_uploaded_file_with_status(file) ==
    Bind(read_points_from_uploaded_file(file), LAMBDA read :
        IF read.raised THEN UiTable(CanonicalColumns, <<>>)
        ELSE UiTable(read.value.columns, UiRows(Len(read.value.rows))))

\* Lines 310-332: the uploader is drawn, and the table of its file is stored.
render_file_import_section(ui, file) ==
    IF file.none THEN draw(ui, "uploader")
    ELSE Bind(read_points_from_uploaded_file_with_status(file),
              LAMBDA uploaded_points_dataframe :
                IF Len(uploaded_points_dataframe.rows) > 0
                THEN bump_interactive_folium_map_key(
                        assign_points_dataframe(draw(ui, "uploader"),
                                                uploaded_points_dataframe, "import"))
                ELSE draw(ui, "uploader"))

\* Lines 593-626: the button "Dodaj kryterium do tabeli" of the TOPSIS page.
add_criterion(ui, topsis_add_criterion_button, criterion_column_name) ==
    LET normalized_criterion_column_name == strip_lower(criterion_column_name)
        points == ui_ensure_points_dataframe(ui.session.points_dataframe, FALSE)
    IN  IF /\ topsis_add_criterion_button
           /\ normalized_criterion_column_name # ""
           /\ ~InList(normalized_criterion_column_name, points.columns)
        THEN bump_interactive_folium_map_key(
                assign_points_dataframe(draw(ui, "criterion"),
                    UiTable(Append(points.columns, normalized_criterion_column_name),
                            points.rows),
                    "criterion"))
        ELSE draw(ui, "criterion")

\* What the multiselect of the criteria gives: the selection of the session when
\* the user leaves it, no criterion, or the first of the available criteria.
multiselect_value(session, available_criteria_columns, multiselect) ==
    IF multiselect = "none" THEN <<>>
    ELSE IF multiselect = "first"
    THEN SubSeq(available_criteria_columns, 1,
                IF Len(available_criteria_columns) > 0 THEN 1 ELSE 0)
    ELSE session.topsis_selected_criteria_columns

\* Lines 628-650: the state of the criteria is updated, the multiselect is drawn
\* and its value stored, and the state is updated again.
select_criteria(ui, multiselect) ==
    Bind(update_topsis_state_for_points(ui), LAMBDA updated :
    Bind(get_topsis_candidate_criteria_columns(
            ui_ensure_points_dataframe(ui.session.points_dataframe, FALSE)),
         LAMBDA available_criteria_columns :
        update_topsis_state_for_points(
            [draw(updated, "multiselect") EXCEPT
                !.session.topsis_selected_criteria_columns =
                    stripped_lower_names(
                        multiselect_value(updated.session, available_criteria_columns,
                                          multiselect))])))

\* No input of a criterion is touched.
NoCriterionInput == [input |-> "none", criterion_name |-> "", number |-> 0, impact |-> ""]

\* The user has typed or chosen the value of this input of this criterion.
Typed(criterion_input, input, criterion_name) ==
    criterion_input.input = input /\ criterion_input.criterion_name = criterion_name

\* {str(key).strip().lower(): value for key, value in dict.items()}.  The keys
\* are names that lines 182 and 647 have trimmed and put in lower case, so that no
\* two of them meet in one key.
with_normalized_keys(dict) ==
    [key \in {strip_lower(name) : name \in DOMAIN dict} |->
        dict[CHOOSE name \in DOMAIN dict : strip_lower(name) = key]]

\* The loop of lines 659-691 on one dict: every selected criterion takes the value
\* of its input, the other keys stay.
with_inputs(dict, selected_criteria_columns, input_value(_)) ==
    [criterion_name \in DOMAIN dict
            \cup {selected_criteria_columns[i] : i \in 1..Len(selected_criteria_columns)} |->
        IF InList(criterion_name, selected_criteria_columns) THEN input_value(criterion_name)
        ELSE dict[criterion_name]]

\* Lines 650-695: for every selected criterion the page draws the inputs "Waga
\* kryterium", "Typ kryterium" and "Domyslna wartosc przy dodaniu z mapy", each
\* under a key of its own and with the value the session holds, and stores what
\* they give.  An input the user has not touched gives the value it was drawn
\* with; the selectbox gives "Koszt" for the impact "cost" and "Korzysc" for any
\* other.
configure_criteria(ui, criterion_input) ==
    LET selected_criteria_columns == ui.session.topsis_selected_criteria_columns
        criteria_weights == ui.session.topsis_criteria_weights
        criteria_impacts == ui.session.topsis_criteria_impacts
        default_values_by_criteria == ui.session.topsis_default_values_by_criteria
        weight_input(criterion_name) ==
            IF Typed(criterion_input, "weight", criterion_name) THEN criterion_input.number
            ELSE get(criteria_weights, criterion_name, 1)
        impact_input(criterion_name) ==
            IF Typed(criterion_input, "impact", criterion_name) THEN criterion_input.impact
            ELSE IF strip_lower(get(criteria_impacts, criterion_name, "benefit")) # "cost"
            THEN "benefit"
            ELSE "cost"
        default_input(criterion_name) ==
            IF Typed(criterion_input, "default", criterion_name) THEN criterion_input.number
            ELSE get(default_values_by_criteria, criterion_name, 1)
        configured ==
            [ui EXCEPT
                !.session.topsis_criteria_weights =
                    with_normalized_keys(
                        with_inputs(criteria_weights, selected_criteria_columns, weight_input)),
                !.session.topsis_criteria_impacts =
                    with_normalized_keys(
                        with_inputs(criteria_impacts, selected_criteria_columns, impact_input)),
                !.session.topsis_default_values_by_criteria =
                    with_normalized_keys(
                        with_inputs(default_values_by_criteria, selected_criteria_columns,
                                    default_input))]
    IN  IF Len(selected_criteria_columns) = 0 THEN configured
        ELSE draw(configured, "criterion inputs")

\* What the editor of the table gives back: a row more, the table without its
\* first row, the table with another value in its first row, or the table.
ui_data_editor(table, edit) ==
    IF edit = "add" THEN UiTable(table.columns, Append(table.rows, "new"))
    ELSE IF edit = "delete" /\ Len(table.rows) > 0
    THEN UiTable(table.columns, Tail(table.rows))
    ELSE IF edit = "change" /\ Len(table.rows) > 0
    THEN UiTable(table.columns,
                 [table.rows EXCEPT ![1] = IF @ = "new" THEN "edited" ELSE "new"])
    ELSE table

\* Lines 429-432: the four columns of the edited table are assigned to the ensured
\* table of the session.  The assignment of a column keeps the index of the table
\* it is assigned to: a row the edited table has no more becomes a row of NaN, a
\* row it has more is left out; a table without rows takes the index assigned.
assign_edited_columns(full_points_dataframe, edited_display_dataframe) ==
    UiTable(full_points_dataframe.columns,
            IF Len(full_points_dataframe.rows) = 0 THEN edited_display_dataframe.rows
            ELSE [i \in 1..Len(full_points_dataframe.rows) |->
                    IF i <= Len(edited_display_dataframe.rows)
                    THEN edited_display_dataframe.rows[i]
                    ELSE "nan"])

\* The editor of the table (lines 418-435 and 700-715): the session is written
\* when the signature changed, on the page of the centroid with the columns of
\* the edited table assigned to the table of the session, on the TOPSIS page with
\* the edited table.
edit_table(ui, edit, include_transport_rate_and_mass) ==
    Bind(ui_ensure_points_dataframe(ui.session.points_dataframe,
                                    include_transport_rate_and_mass), LAMBDA points :
    Bind(ui_ensure_points_dataframe(ui_data_editor(points, edit),
                                    include_transport_rate_and_mass), LAMBDA edited :
        IF ui_points_dataframe_signature(edited) # ui_points_dataframe_signature(points)
        THEN bump_interactive_folium_map_key(
                assign_points_dataframe(draw(ui, "editor"),
                    IF include_transport_rate_and_mass
                    THEN assign_edited_columns(points, edited)
                    ELSE edited,
                    "edit"))
        ELSE draw(ui, "editor")))

\* append_point: the ensured table with one row more.
ui_append_point(table, include_transport_rate_and_mass) ==
    Bind(ui_ensure_points_dataframe(table, include_transport_rate_and_mass), LAMBDA df :
        UiTable(df.columns, Append(df.rows, "new")))

\* Lines 335-395: without a click nothing is drawn; on the TOPSIS page the state
\* of the criteria is updated (line 351) before the button.
render_add_point_from_map_section(ui, add_point_from_map_button) ==
    IF ui.session.map_last_clicked = PyNone THEN ui
    ELSE Bind(draw(IF ui.session.calculation_method = "TOPSIS"
                   THEN update_topsis_state_for_points(ui)
                   ELSE ui, "map"), LAMBDA shown :
            IF add_point_from_map_button
            THEN bump_interactive_folium_map_key(
                    assign_points_dataframe(shown,
                        ui_append_point(shown.session.points_dataframe,
                                        shown.session.calculation_method # "TOPSIS"),
                        "map"))
            ELSE shown)

add_manual_point(ui, submit_add_point) ==
    IF submit_add_point
    THEN bump_interactive_folium_map_key(
            assign_points_dataframe(draw(ui, "manual"),
                ui_append_point(ui.session.points_dataframe,
                                ui.session.calculation_method # "TOPSIS"),
                "manual"))
    ELSE draw(ui, "manual")

\* Lines 566-577: the button "Wyczyść wszystkie punkty" of the page of the centroid.
clear_points(ui, clear_points_button) ==
    IF clear_points_button
    THEN bump_interactive_folium_map_key(
            [assign_points_dataframe(draw(ui, "clear"),
                                     UiTable(CanonicalColumns, <<>>), "clear")
                EXCEPT !.session.map_last_clicked = PyNone])
    ELSE draw(ui, "clear")

\* Lines 862-876: the button "Wyczyść wszystkie punkty" of the TOPSIS page.
clear_topsis_points(ui, clear_points_button) ==
    IF clear_points_button
    THEN bump_interactive_folium_map_key(
            [assign_points_dataframe(draw(ui, "clear"),
                                     UiTable(<<"longitude", "latitude">>, <<>>), "clear")
                EXCEPT !.session.topsis_selected_criteria_columns = <<>>,
                       !.session.topsis_criteria_weights = <<>>,
                       !.session.topsis_criteria_impacts = <<>>,
                       !.session.topsis_default_values_by_criteria = <<>>,
                       !.session.map_last_clicked = PyNone])
    ELSE draw(ui, "clear")

\* The rows of the ranking of compute_topsis_details: none for a table without
\* rows or without a selected criterion among its columns.
ranking_rows(points, selected_criteria_columns) ==
    IF \E i \in 1..Len(selected_criteria_columns) :
            InList(selected_criteria_columns[i], points.columns)
    THEN points.rows
    ELSE <<>>

\* The widgets of a run: the radios, the uploader, the multiselect, the inputs of
\* the criteria, the editor and the buttons.
Widgets(active_page, calculation_method, file, multiselect, criterion_input, edit, button, criterion_column_name) ==
    [active_page |-> active_page, calculation_method |-> calculation_method,
     file |-> file, multiselect |-> multiselect, criterion_input |-> criterion_input,
     edit |-> edit, button |-> button, criterion_column_name |-> criterion_column_name]

\* The run returns at line 521 when the table has no row.
render_centroid_controls(ui, widgets) ==
    Bind(render_file_import_section(ui, widgets.file), LAMBDA imported :
    Bind(edit_table(imported, widgets.edit, TRUE), LAMBDA edited :
    Bind(render_add_point_from_map_section(edited, widgets.button = "map"), LAMBDA from_map :
    Bind(add_manual_point(from_map, widgets.button = "manual"), LAMBDA added :
    Bind(ui_ensure_points_dataframe(added.session.points_dataframe, TRUE),
         LAMBDA updated_points_dataframe :
        IF Len(updated_points_dataframe.rows) = 0 THEN added
        ELSE clear_points(added, widgets.button = "clear"))))))

\* The run returns at line 776 when the table has no row, at line 779 when no
\* criterion is selected, at line 790 when the ranking has no row.
render_topsis_controls(ui, widgets) ==
    Bind(render_file_import_section(ui, widgets.file), LAMBDA imported :
    Bind(add_criterion(imported, widgets.button = "criterion",
                       widgets.criterion_column_name), LAMBDA with_criterion :
    Bind(select_criteria(with_criterion, widgets.multiselect), LAMBDA selected :
    Bind(selected.session.topsis_selected_criteria_columns,
         LAMBDA selected_criteria_columns :
    Bind(configure_criteria(selected, widgets.criterion_input), LAMBDA configured :
    Bind(edit_table(configured, widgets.edit, FALSE), LAMBDA edited :
    Bind(render_add_point_from_map_section(edited, widgets.button = "map"), LAMBDA from_map :
    Bind(add_manual_point(from_map, widgets.button = "manual"), LAMBDA added :
    Bind(ui_ensure_points_dataframe(added.session.points_dataframe, FALSE),
         LAMBDA ensured_points_dataframe :
        IF Len(ensured_points_dataframe.rows) = 0 THEN added
        ELSE IF Len(selected_criteria_columns) = 0 THEN added
        ELSE IF Len(ranking_rows(ensured_points_dataframe, selected_criteria_columns)) = 0
        THEN added
        ELSE clear_topsis_points(added, widgets.button = "clear"))))))))))

run_app(session, widgets) ==
    Bind(render_sidebar_menu(StartOfRun(session), widgets.active_page,
                             widgets.calculation_method), LAMBDA menu :
        IF menu.session.active_page # "Obliczenia" THEN render_other_page(menu)
        ELSE Bind(render_map(menu), LAMBDA drawn :
                IF menu.session.calculation_method = "TOPSIS"
                THEN render_topsis_controls(drawn, widgets)
                ELSE render_centroid_controls(drawn, widgets)))

-----------------------------------------------------------------------------
(* The runs of the page.  A run follows one act of the user on a widget the *)
(* last run drew, or none; the radios keep their values from run to run,    *)
(* the uploader keeps its file as long as it is drawn, and the editor, once *)
(* drawn, may hold an edit in any run.                                      *)

MaxUiPoints == 2    \* rows of the points table of the page
MaxVersion == 4     \* the version of the key of the map stops here
MaxTypedInputs == 1 \* inputs of the criteria that hold another value than they start with

Pages == {"Obliczenia", "Wyjasnienie metod", "Pomoc"}

Methods == {"Srodek ciezkosci", "TOPSIS"}

Edits == {"none", "add", "delete", "change"}

UiFiles == {file \in AppFiles : file.format = "garbage" \/ Len(file.table.columns) = 4}

TypedCriterionNames == {" Cost", "", "longitude"}

ClickedPosition == F(1)

\* The numbers typed into "Waga kryterium" (not below its min_value of 0.0) and
\* into "Domyslna wartosc przy dodaniu z mapy".
TypedWeights == {1, 2}
TypedDefaults == {1, 5}

InitUi ==
    /\ called = "none"
    /\ points_dataframe = NoneFrame
    /\ marker_positions = NoMarkers
    /\ default_transport_rate = 1
    /\ default_mass = 1
    /\ NoCriteria
    /\ uploaded_file = NoFile
    /\ all_drawings = NoDrawings
    /\ session_state = InitialUiSession
    /\ script_run = NoRun
    /\ result = Return(NoneFrame)

\* The inputs of the criteria that hold another value than a new input shows.
TypedInputs(session) ==
    Cardinality({criterion_name \in DOMAIN session.topsis_criteria_weights :
                    session.topsis_criteria_weights[criterion_name] # 1})
    + Cardinality({criterion_name \in DOMAIN session.topsis_criteria_impacts :
                    session.topsis_criteria_impacts[criterion_name] # "benefit"})
    + Cardinality({criterion_name \in DOMAIN session.topsis_default_values_by_criteria :
                    session.topsis_default_values_by_criteria[criterion_name] # 1})

\* One run of run_app; script_run keeps the version the run found and what the
\* run did.  An uploader that is not drawn loses its file.
RunUi(session, widgets_of_run) ==
    \E widgets \in {widgets_of_run} : \E ui \in {run_app(session, widgets)} :
        /\ Len(ui.session.points_dataframe.rows) <= MaxUiPoints
        /\ ui.session.interactive_folium_map_key_version <= MaxVersion
        /\ TypedInputs(ui.session) <= MaxTypedInputs
        /\ session_state' = ui.session
        /\ uploaded_file' =
            IF "uploader" \in ui.session.widgets_drawn THEN widgets.file ELSE NoFile
        /\ script_run' =
            [kind |-> "run_app",
             start |-> session_state.interactive_folium_map_key_version,
             replaced |-> ui.replaced,
             replaced_by |-> ui.replaced_by,
             method_changed |-> ui.method_changed]
        /\ UNCHANGED all_drawings
        /\ UNCHANGED_call

\* The last run drew the widget.
Drawn(widget) == widget \in session_state.widgets_drawn

\* The edits the editor may hold.
EditsHeld == IF Drawn("editor") THEN Edits ELSE {"none"}

\* The widgets as the last run left them, with the edit and the button of this run.
WidgetsWith(edit, button, criterion_column_name) ==
    Widgets(session_state.active_page, session_state.calculation_method, uploaded_file,
            "left", NoCriterionInput, edit, button, criterion_column_name)

\* The script runs with no new act of the user: the first run, or a rerun.
RunUiAgain ==
    \E edit \in EditsHeld : RunUi(session_state, WidgetsWith(edit, "none", ""))

RunUiAfterPageChoice ==
    /\ Drawn("menu")
    /\ \E active_page \in Pages \ {session_state.active_page}, edit \in EditsHeld :
        RunUi(session_state,
              [WidgetsWith(edit, "none", "") EXCEPT !.active_page = active_page])

RunUiAfterMethodChoice ==
    /\ Drawn("menu")
    /\ \E calculation_method \in Methods \ {session_state.calculation_method},
          edit \in EditsHeld :
        RunUi(session_state,
              [WidgetsWith(edit, "none", "") EXCEPT !.calculation_method = calculation_method])

\* The user puts a file into the uploader, or takes it out.
RunUiAfterUpload ==
    /\ Drawn("uploader")
    /\ \E file \in (UiFiles \cup {NoFile}) \ {uploaded_file}, edit \in EditsHeld :
        RunUi(session_state, [WidgetsWith(edit, "none", "") EXCEPT !.file = file])

\* A click on the map that is shown.
RunUiAfterMapClick ==
    /\ session_state.interactive_folium_map.key =
            session_state.interactive_folium_map_key_version
    /\ \E edit \in EditsHeld :
        RunUi([session_state EXCEPT !.interactive_folium_map.last_clicked = ClickedPosition],
              WidgetsWith(edit, "none", ""))

RunUiAfterAddCriterion ==
    /\ Drawn("criterion")
    /\ \E criterion_column_name \in TypedCriterionNames, edit \in EditsHeld :
        RunUi(session_state, WidgetsWith(edit, "criterion", criterion_column_name))

\* The user takes criteria out of the multiselect.
RunUiAfterCriteriaChoice ==
    /\ Drawn("multiselect")
    /\ \E multiselect \in {"none", "first"}, edit \in EditsHeld :
        RunUi(session_state,
              [WidgetsWith(edit, "none", "") EXCEPT !.multiselect = multiselect])

\* The selected criteria of the session, whose inputs the last run drew.
SelectedCriteria ==
    {session_state.topsis_selected_criteria_columns[i] :
        i \in 1..Len(session_state.topsis_selected_criteria_columns)}

\* What the user can put into the inputs of a criterion: another weight, the
\* other impact, another default value.
CriterionInputs(criterion_name) ==
    {[NoCriterionInput EXCEPT !.input = "weight", !.criterion_name = criterion_name,
                              !.number = weight] :
        weight \in TypedWeights \ {session_state.topsis_criteria_weights[criterion_name]}}
    \cup
    {[NoCriterionInput EXCEPT !.input = "impact", !.criterion_name = criterion_name,
                              !.impact = impact] :
        impact \in {"benefit", "cost"}
                        \ {session_state.topsis_criteria_impacts[criterion_name]}}
    \cup
    {[NoCriterionInput EXCEPT !.input = "default", !.criterion_name = criterion_name,
                              !.number = default] :
        default \in TypedDefaults
                        \ {session_state.topsis_default_values_by_criteria[criterion_name]}}

\* The user types a weight or a default value of a selected criterion, or chooses
\* its impact.
RunUiAfterCriterionInput ==
    /\ Drawn("criterion inputs")
    /\ \E criterion_name \in SelectedCriteria, edit \in EditsHeld :
        \E criterion_input \in CriterionInputs(criterion_name) :
            RunUi(session_state,
                  [WidgetsWith(edit, "none", "") EXCEPT !.criterion_input = criterion_input])

RunUiAfterAddPointFromMap ==
    /\ Drawn("map")
    /\ \E edit \in EditsHeld : RunUi(session_state, WidgetsWith(edit, "map", ""))

RunUiAfterAddManualPoint ==
    /\ Drawn("manual")
    /\ \E edit \in EditsHeld : RunUi(session_state, WidgetsWith(edit, "manual", ""))

RunUiAfterClear ==
    /\ Drawn("clear")
    /\ \E edit \in EditsHeld : RunUi(session_state, WidgetsWith(edit, "clear", ""))

NextUi ==
    \/ RunUiAgain
    \/ RunUiAfterPageChoice
    \/ RunUiAfterMethodChoice
    \/ RunUiAfterUpload
    \/ RunUiAfterMapClick
    \/ RunUiAfterAddCriterion
    \/ RunUiAfterCriteriaChoice
    \/ RunUiAfterCriterionInput
    \/ RunUiAfterAddPointFromMap
    \/ RunUiAfterAddManualPoint
    \/ RunUiAfterClear

SpecUi == InitUi /\ [][NextUi]_vars

-----------------------------------------------------------------------------
(* The objects of a call of the core (src/logic.py).  A heap is the        *)
(* sequence of what the objects hold: object 1 is the table the caller     *)
(* passes, object 2 the marker list the caller passes, and every object a  *)
(* call creates is appended.  A call gives the heap it leaves, the object  *)
(* it returns and whether it raised.                                       *)

PassedTable == 1
PassedMarkers == 2
NoObject == 0

Allocate(heap, value) == [heap |-> Append(heap, value), object |-> Len(heap) + 1]

Write(heap, object, value) == [heap EXCEPT ![object] = value]

Returned(allocated) == [heap |-> allocated.heap, object |-> allocated.object, raised |-> FALSE]

Raised(heap) == [heap |-> heap, object |-> NoObject, raised |-> TRUE]

\* A copy that is the object itself.
copy_that_shares(heap, object) == [heap |-> heap, object |-> object]

\* DataFrame.copy(): a new object that holds the same.
copy(heap, object) == Allocate(heap, heap[object])

\* normalize_column_names (lines 61-64): df = input_dataframe.copy(); df.columns = ...
normalize_column_names_of(heap, input_dataframe) ==
    Bind(copy(heap, input_dataframe), LAMBDA df :
        [heap |-> Write(df.heap, df.object, normalize_column_names(df.heap[df.object])),
         object |-> df.object])

\* What lines 93-107 of ensure_points_dataframe leave in df: the default columns and,
\* unless setting them raises, the empty coordinate columns.
df_with_added_columns(df) ==
    LET cols == resolve_columns(df)
        df2 == with_default_columns(df, cols)
    IN  IF (cols.lon_col = NoColumn \/ cols.lat_col = NoColumn) /\ set_empty_column_raises(df2)
        THEN df2
        ELSE with_empty_coordinates(df2, cols)

\* ensure_points_dataframe (lines 74-120): the columns are added to df, and the
\* table returned is the object selected.
ensure_points_dataframe_of(heap, points) ==
    IF heap[points].none THEN Returned(Allocate(heap, EmptyPointsFrame))
    ELSE Bind(ensure_points_dataframe(heap[points]), LAMBDA ensured :
         Bind(normalize_column_names_of(heap, points), LAMBDA df :
            LET worked == Write(df.heap, df.object,
                                df_with_added_columns(df.heap[df.object]))
            IN  IF ensured.raised THEN Raised(worked)
                ELSE Returned(Allocate(worked, ensured.value))))

\* append_point (lines 123-135): pd.concat gives a new table.
append_point_of(heap, points, longitude, latitude, transport_rate, mass) ==
    Bind(ensure_points_dataframe_of(heap, points), LAMBDA df :
        IF df.raised THEN df
        ELSE Returned(Allocate(df.heap,
                append_point(heap[points], longitude, latitude, transport_rate, mass).value)))

\* compute_center_of_gravity (lines 158-166): the result is a tuple of numbers.
compute_center_of_gravity_of(heap, points) ==
    Bind(ensure_points_dataframe_of(heap, points), LAMBDA df :
    Bind(compute_center_of_gravity(heap[points]), LAMBDA computed :
        IF df.raised THEN df
        ELSE IF computed.raised THEN Raised(df.heap)
        ELSE Returned(Allocate(df.heap, computed.value))))

\* math.sqrt(v), kept as the number under the root.
Sqrt(v) == [kind |-> "sqrt", val |-> v]

\* Lines 202-206: d and w * d of a row; w * d is kept as the root of w * w * d * d,
\* with the sign of w.
distances_of_row(row, centroid_longitude, centroid_latitude) ==
    LET dx == centroid_longitude - row[1].val
        dy == centroid_latitude - row[2].val
        squared == dx * dx + dy * dy
        w == row[3].val * row[4].val
    IN  <<Sqrt(squared),
          IF w < 0 THEN [kind |-> "-sqrt", val |-> w * w * squared]
          ELSE Sqrt(w * w * squared)>>

\* The table compute_point_distances leaves in out (lines 202-210).
with_distances(df, centroid_longitude, centroid_latitude) ==
    [df EXCEPT
        !.columns = @ \o <<"euclidean_distance", "weighted_euclidean_distance">>,
        !.rows = [i \in 1..Len(df.rows) |->
                    df.rows[i] \o distances_of_row(df.rows[i], centroid_longitude,
                                                   centroid_latitude)]]

\* compute_point_distances (lines 195-210).
compute_point_distances(input, centroid_longitude, centroid_latitude) ==
    LET ensured == ensure_points_dataframe(input)
    IN  IF ensured.raised THEN ensured
        ELSE Return(with_distances(ensured.value, centroid_longitude, centroid_latitude))

\* compute_point_distances on objects: out = df.copy(), and the columns of the
\* distances are set in out.
compute_point_distances_of(heap, points, centroid_longitude, centroid_latitude) ==
    Bind(ensure_points_dataframe_of(heap, points), LAMBDA df :
        IF df.raised THEN df
        ELSE Bind(copy(df.heap, df.object), LAMBDA out :
                [heap |-> Write(out.heap, out.object,
                                with_distances(out.heap[out.object], centroid_longitude,
                                               centroid_latitude)),
                 object |-> out.object,
                 raised |-> FALSE]))

\* The table synchronize_points_dataframe_with_marker_positions builds from its rows
\* (lines 258-268 and 302-330).
frame_of_synchronized_rows(df, markers, dtr, dm) ==
    frame_from_rows(
        IF Len(df.rows) = 0
        THEN [j \in 1..Len(markers) |->
                <<F(markers[j][1]), F(markers[j][2]), F(dtr), F(dm)>>]
        ELSE build_updated_rows(df, markers, match_points(df, markers), dtr, dm))

\* synchronize_points_dataframe_with_marker_positions (lines 246-330) on objects:
\* list(marker_positions or []) is a new list, and the result is the table
\* ensure_points_dataframe returns for the table of the rows.
synchronize_of(heap, points, markers, dtr, dm) ==
    Bind(ensure_points_dataframe_of(heap, points), LAMBDA df :
        IF df.raised THEN df
        ELSE Bind(Allocate(df.heap, list_or_empty(heap[markers])), LAMBDA listed :
                IF Len(listed.heap[listed.object]) = 0
                THEN Returned(Allocate(listed.heap, EmptyPointsFrame))
                ELSE Bind(Allocate(listed.heap,
                                   frame_of_synchronized_rows(df.heap[df.object],
                                        listed.heap[listed.object], dtr, dm)),
                          LAMBDA rows : ensure_points_dataframe_of(rows.heap, rows.object))))

-----------------------------------------------------------------------------
(* The calls of the core on the objects of the caller: tables whose        *)
(* headers need trimming, lack columns or are canonical, with numbers and  *)
(* texts in the coordinates, and a marker list.                            *)

MaxPassedRows == 1

PassedRows2 == {<<lon, lat>> : lon \in {F(0), F(1), Text}, lat \in {F(0), F(1)}}

PassedRows4 ==
    {<<lon, lat, tr, F(1)>> : lon \in {F(0), F(1), Text}, lat \in {F(0), F(1)},
                              tr \in {F(2), NaN}}

PassedTables ==
    {DataFrame(<<" Lon ", "LAT">>, rows) : rows \in SeqsUpTo(PassedRows2, MaxPassedRows)}
    \cup {DataFrame(columns, rows) :
            columns \in {CanonicalColumns, <<"lon", "lat", "Rate", " M">>},
            rows \in SeqsUpTo(PassedRows4, MaxPassedRows)}
    \cup {DataFrame(<<"lon">>, rows) : rows \in SeqsUpTo({<<F(1)>>}, MaxPassedRows)}
    \cup {NoneFrame}

PassedMarkerLists ==
    {NoMarkers, [none |-> FALSE, items |-> <<>>], [none |-> FALSE, items |-> << <<1, 0>> >>]}

InitPure ==
    /\ called = "none"
    /\ points_dataframe \in PassedTables
    /\ marker_positions \in PassedMarkerLists
    /\ default_transport_rate = 1
    /\ default_mass = 1
    /\ NoCriteria
    /\ uploaded_file = NoFile
    /\ all_drawings = NoDrawings
    /\ NoScript
    /\ result = Return(NoneFrame)

\* The heap before a call.
PassedHeap == <<points_dataframe, marker_positions>>

\* A call: the objects of the caller hold what the call left in them, and
\* script_run keeps what they held and the object the call returned.
CallOnObjects(function, outcome_of_call) ==
    \E outcome \in {outcome_of_call} :
    /\ called = "none"
    /\ called' = function
    /\ points_dataframe' = outcome.heap[PassedTable]
    /\ marker_positions' = outcome.heap[PassedMarkers]
    /\ result' = IF outcome.raised THEN Raise ELSE Return(outcome.heap[outcome.object])
    /\ script_run' = [kind |-> "call", before |-> PassedHeap,
                      returned |-> outcome.object, raised |-> outcome.raised]
    /\ UNCHANGED <<default_transport_rate, default_mass, criteria_columns,
                   criteria_weights_by_name, criteria_impacts_by_name, uploaded_file,
                   all_drawings, session_state>>

CallEnsureOnObjects ==
    CallOnObjects("ensure_points_dataframe",
                  ensure_points_dataframe_of(PassedHeap, PassedTable))

CallAppendPointOnObjects ==
    CallOnObjects("append_point",
                  append_point_of(PassedHeap, PassedTable, 1, 1, 1, 1))

CallCenterOfGravityOnObjects ==
    CallOnObjects("compute_center_of_gravity",
                  compute_center_of_gravity_of(PassedHeap, PassedTable))

CallPointDistancesOnObjects ==
    CallOnObjects("compute_point_distances",
                  compute_point_distances_of(PassedHeap, PassedTable, 1, 1))

CallSynchronizeOnObjects ==
    CallOnObjects("synchronize_points_dataframe_with_marker_positions",
                  synchronize_of(PassedHeap, PassedTable, PassedMarkers,
                                 default_transport_rate, default_mass))

NextPure ==
    \/ CallEnsureOnObjects
    \/ CallAppendPointOnObjects
    \/ CallCenterOfGravityOnObjects
    \/ CallPointDistancesOnObjects
    \/ CallSynchronizeOnObjects

SpecPure == InitPure /\ [][NextPure]_vars

-----------------------------------------------------------------------------
(* Vocabulary of the properties of the normaliser.  A header is described  *)
(* here by its own table of trimmed, lower-cased spellings, independent of *)
(* strip_lower.                                                            *)

TrimmedLower(h) ==
    IF h \in {"lon", " Lon "} THEN "lon"
    ELSE IF h \in {"lat", "LAT"} THEN "lat"
    ELSE IF h \in {"rate", "Rate"} THEN "rate"
    ELSE IF h \in {"m", " M"} THEN "m"
    ELSE IF h \in {"cost", " Cost"} THEN "cost"
    ELSE IF h = "  " THEN ""
    ELSE h

ColumnsNamed(T, a) == {i \in 1..Len(T.columns) : TrimmedLower(T.columns[i]) = a}

HasAlias(T, aliases) == \E k \in 1..Len(aliases) : ColumnsNamed(T, aliases[k]) # {}

\* The first alias, in priority order, that some header spells.
FirstAlias(T, aliases) ==
    aliases[CHOOSE k \in 1..Len(aliases) :
        /\ ColumnsNamed(T, aliases[k]) # {}
        /\ \A j \in 1..(k - 1) : ColumnsNamed(T, aliases[j]) = {}]

CoercesToNumber(cell) == cell.kind \in {"float", "numstr", "inf"}

IsFinite(cell) == cell.kind = "float"

AllCellsNumeric(T) ==
    \A r \in 1..Len(T.rows) : \A c \in 1..Len(T.rows[r]) : CoercesToNumber(T.rows[r][c])

Normalized == called = "ensure_points_dataframe" /\ ~result.raised

\* Column k of the output is, row by row, the coerced column i of the input.
ReadFrom(k, i) ==
    \A r \in 1..Len(points_dataframe.rows) :
        result.value.rows[r][k] = to_numeric(points_dataframe.rows[r][i])

ResolvedByAlias(k, aliases) ==
    HasAlias(points_dataframe, aliases) =>
        \A i \in ColumnsNamed(points_dataframe, FirstAlias(points_dataframe, aliases)) :
            ReadFrom(k, i)

SynthesizedWhenAbsent(k, aliases) ==
    ~HasAlias(points_dataframe, aliases) =>
        \A r \in 1..Len(result.value.rows) : result.value.rows[r][k] = F(1)

\* The composition ensure_points_dataframe(ensure_points_dataframe(T)): an
\* exception of the inner call ends the composition.
ensure_twice(T) ==
    LET inner == ensure_points_dataframe(T)
    IN  IF inner.raised THEN inner ELSE ensure_points_dataframe(inner.value)

-----------------------------------------------------------------------------
(* Properties of the normaliser.                                           *)

\* C7: normalising a normalised table changes nothing: for every input table T,
\* ensure_points_dataframe(ensure_points_dataframe(T)) ends as
\* ensure_points_dataframe(T) does, with the same columns, rows and cells.
C7_NormalizationIdempotent ==
    called = "ensure_points_dataframe" => ensure_twice(points_dataframe) = result

\* A call that dropped a row for its missing longitude, kept the other and filled
\* its mass, which was not a number.
C7_Witness ==
    /\ Normalized
    /\ Len(points_dataframe.rows) = 2
    /\ points_dataframe.rows[1][1] = NaN
    /\ points_dataframe.rows[2] = <<F(1), F(1), Text>>
    /\ result.value.rows = <<<<F(1), F(1), F(1), F(1)>>>>

\* C8 (as claimed): the output holds, in input order and re-indexed from 0,
\* exactly the input rows whose longitude and latitude both coerce to a number;
\* every output row has finite coordinates and a transport_rate and mass equal to
\* the coerced input or to 1.0 where the cell was missing or not numeric.
C8_KeptRowsFiniteAndFilled ==
    (/\ Normalized
     /\ points_dataframe.columns \in {<<"longitude", "latitude">>,
                                      <<"longitude", "latitude", "mass">>}) =>
        LET T == points_dataframe
            out == result.value
            keep == SelectSeq(RangeIndex(Len(T.rows)),
                        LAMBDA r : /\ CoercesToNumber(T.rows[r + 1][1])
                                   /\ CoercesToNumber(T.rows[r + 1][2]))
        IN  /\ Len(out.rows) = Len(keep)
            /\ out.index = RangeIndex(Len(keep))
            /\ \A j \in 1..Len(keep) :
                LET row == T.rows[keep[j] + 1]
                IN  /\ out.rows[j][1] = to_numeric(row[1])
                    /\ out.rows[j][2] = to_numeric(row[2])
                    /\ IsFinite(out.rows[j][1]) /\ IsFinite(out.rows[j][2])
                    /\ out.rows[j][3] = F(1)
                    /\ out.rows[j][4] = (IF Len(row) = 3 /\ CoercesToNumber(row[3])
                                         THEN to_numeric(row[3]) ELSE F(1))

\* C9: each canonical column is read from the column whose trimmed, lower-cased
\* header is the first alias present, in priority order; with no longitude and no
\* latitude alias and at least two columns, longitude is the first column and
\* latitude the second; with no transport_rate (mass) alias the column is 1.0 in
\* every row.  Stated on tables whose cells all coerce, so that no row is dropped.
C9_ColumnResolution ==
    (Normalized /\ ~points_dataframe.none /\ AllCellsNumeric(points_dataframe)) =>
        /\ HasAlias(points_dataframe, LongitudeAliases)
                \/ HasAlias(points_dataframe, LatitudeAliases)
                \/ Len(points_dataframe.columns) >= 2
            => Len(result.value.rows) = Len(points_dataframe.rows)
        /\ ResolvedByAlias(1, LongitudeAliases)
        /\ ResolvedByAlias(2, LatitudeAliases)
        /\ ResolvedByAlias(3, TransportRateAliases)
        /\ ResolvedByAlias(4, MassAliases)
        /\ (/\ ~HasAlias(points_dataframe, LongitudeAliases)
            /\ ~HasAlias(points_dataframe, LatitudeAliases)
            /\ Len(points_dataframe.columns) >= 2) => (ReadFrom(1, 1) /\ ReadFrom(2, 2))
        /\ SynthesizedWhenAbsent(3, TransportRateAliases)
        /\ SynthesizedWhenAbsent(4, MassAliases)

\* Longitude read from " Lon " although the lower alias "x" comes first, latitude
\* from "LAT", transport_rate and mass synthesized.
C9_Witness ==
    /\ Normalized
    /\ points_dataframe.columns = <<"x", " Lon ", "LAT">>
    /\ Len(result.value.rows) = 2
    /\ result.value.rows[2] = <<F(22), F(23), F(1), F(1)>>

\* C10 (as claimed): a table with fewer than two columns and no longitude or
\* latitude alias normalises to the empty point table with the four canonical
\* columns, without raising, whatever its number of rows.
C10_UnresolvedCoordinatesGiveEmptyTable ==
    (/\ called = "ensure_points_dataframe"
     /\ ~points_dataframe.none
     /\ Len(points_dataframe.columns) < 2
     /\ ~HasAlias(points_dataframe, LongitudeAliases)
     /\ ~HasAlias(points_dataframe, LatitudeAliases))
        => result = Return(EmptyPointsFrame)

\* C11 (as claimed): normalisation is total: for every table, with whatever
\* extra columns and also when two headers are equal after trimming and
\* lower-casing, the call does not raise and returns a table whose columns are
\* exactly longitude, latitude, transport_rate, mass.
C11_NormalizationTotal ==
    called = "ensure_points_dataframe" =>
        /\ ~result.raised
        /\ result.value.columns = <<"longitude", "latitude", "transport_rate", "mass">>

\* Every cell of a row differs from the other cells of the row, so that a value
\* of the output tells the column it was read from.
CellsTellColumn(T) ==
    \A r \in 1..Len(T.rows) : \A c, d \in 1..Len(T.rows[r]) :
        c # d => T.rows[r][c] # T.rows[r][d]

\* C30 (as claimed): normalisation never reads longitude and latitude from the
\* same input column: for every table with at least two columns no column of the
\* input is the source of both output coordinates, also when one coordinate is
\* found by alias and the other is taken by the positional fallback.  Stated on
\* tables with a row, whose cells all coerce and tell their column.
C30_CoordinatesFromDifferentColumns ==
    (/\ Normalized
     /\ ~points_dataframe.none
     /\ Len(points_dataframe.columns) >= 2
     /\ Len(points_dataframe.rows) >= 1
     /\ AllCellsNumeric(points_dataframe)
     /\ CellsTellColumn(points_dataframe)) =>
        \A i \in 1..Len(points_dataframe.columns) : ~(ReadFrom(1, i) /\ ReadFrom(2, i))

-----------------------------------------------------------------------------
(* Vocabulary of the properties of the centroid.  The points are read from *)
(* the cells of the input table; a missing mass or rate counts 1.          *)

CenterComputed == called = "compute_center_of_gravity" /\ ~result.raised

NumCentroidPoints == Len(points_dataframe.rows)

CellNumber(cell) == IF cell.kind = "nan" THEN float_of_int(1) ELSE float_of(cell)

Coordinate(i, k) == CellNumber(points_dataframe.rows[i][k])

Weight(i) ==
    float_mul(CellNumber(points_dataframe.rows[i][3]), CellNumber(points_dataframe.rows[i][4]))

\* The sum of the first n terms as a program adds floats: from 0.0, one term after
\* the other, each sum rounded to a double.
RECURSIVE FloatSum(_, _)
FloatSum(terms, n) ==
    IF n = 0 THEN ZeroFloat ELSE float_add(FloatSum(terms, n - 1), terms[n])

TotalWeight == FloatSum([i \in 1..NumCentroidPoints |-> Weight(i)], NumCentroidPoints)

WeightedSum(k) ==
    FloatSum([i \in 1..NumCentroidPoints |-> float_mul(Weight(i), Coordinate(i, k))],
             NumCentroidPoints)

PlainSum(k) == FloatSum([i \in 1..NumCentroidPoints |-> Coordinate(i, k)], NumCentroidPoints)

\* |W| >= 1e-12
AtLeastEpsilon(W) == float_cmp(float_abs(W), Epsilon) >= 0

\* The double q is the quotient a / b, rounded to a double.
QuotientIs(q, a, b) == float_sign(b) # 0 /\ q = float_div(a, b)

CentroidX == result.value[1]
CentroidY == result.value[2]

\* C12: when the total weight W = sum of transport_rate_i * mass_i has
\* |W| >= 1e-12, the centroid is (sum(w_i x_i) / W, sum(w_i y_i) / W), the sums and
\* the quotients being those of doubles; the points (0,0), (10,0), (5,10) of
\* weights 1, 1, 2 give (5, 5).
C12_WeightedMean ==
    /\ (CenterComputed /\ AtLeastEpsilon(TotalWeight)) =>
            /\ QuotientIs(CentroidX, WeightedSum(1), TotalWeight)
            /\ QuotientIs(CentroidY, WeightedSum(2), TotalWeight)
    /\ (called = "compute_center_of_gravity" /\ points_dataframe = ExampleTable) =>
            /\ ~result.raised
            /\ CentroidX = float_of_int(5)
            /\ CentroidY = float_of_int(5)

\* The example, computed as 20 / 4 and 20 / 4.
C12_Witness ==
    /\ CenterComputed
    /\ points_dataframe = ExampleTable
    /\ TotalWeight = float_of_int(4)
    /\ WeightedSum(1) = float_of_int(20)
    /\ CentroidX = float_of_int(5)
    /\ CentroidY = float_of_int(5)

\* C13: the degenerate cases do not divide by zero: with no point the centroid is
\* (0, 0); with at least one point and |sum of w_i| < 1e-12 it is the unweighted
\* mean (sum(x_i) / n, sum(y_i) / n).
C13_DegenerateCentroid ==
    called = "compute_center_of_gravity" =>
        /\ ~result.raised
        /\ NumCentroidPoints = 0 =>
                /\ float_sign(CentroidX) = 0
                /\ float_sign(CentroidY) = 0
        /\ (NumCentroidPoints >= 1 /\ ~AtLeastEpsilon(TotalWeight)) =>
                /\ QuotientIs(CentroidX, PlainSum(1), float_of_int(NumCentroidPoints))
                /\ QuotientIs(CentroidY, PlainSum(2), float_of_int(NumCentroidPoints))

\* Two points whose total weight is 3 * 2.5e-13, neither 0 nor 1e-12 or more:
\* the result is the plain mean 1/2, not the weighted mean 2/3.
C13_Witness ==
    /\ CenterComputed
    /\ NumCentroidPoints = 2
    /\ TotalWeight = float_of(Tiny(3))
    /\ QuotientIs(CentroidX, float_of_int(1), float_of_int(2))
    /\ ~QuotientIs(CentroidX, WeightedSum(1), TotalWeight)

\* d . c for the direction d and the centroid c, with no rounding.
DotCentroid(d) == exact_add(exact_mul(d[1], CentroidX), exact_mul(d[2], CentroidY))

DotPoint(d, i) ==
    exact_add(exact_mul(d[1], Coordinate(i, 1)), exact_mul(d[2], Coordinate(i, 2)))

\* The number q is at most the number v.
QuotientAtMost(q, v) == float_cmp(q, v) <= 0

\* The directions that decide the convex hull of the input points: the two axes,
\* the differences of two points and their normals, each with its opposite.
HullDirections ==
    LET axes == {<<float_of_int(1), ZeroFloat>>, <<ZeroFloat, float_of_int(1)>>}
        differences ==
            {<<exact_sub(Coordinate(i, 1), Coordinate(j, 1)),
               exact_sub(Coordinate(i, 2), Coordinate(j, 2))>> :
                i \in 1..NumCentroidPoints, j \in 1..NumCentroidPoints}
        half == axes \cup differences \cup {<<float_neg(d[2]), d[1]>> : d \in differences}
    IN  half \cup {<<float_neg(d[1]), float_neg(d[2])>> : d \in half}

\* The centroid is in the convex hull of the input points: in no direction does it
\* lie beyond every point.  The axes give min x_i <= x <= max x_i and
\* min y_i <= y <= max y_i.
InConvexHull ==
    \A d \in HullDirections :
        \E i \in 1..NumCentroidPoints : QuotientAtMost(DotCentroid(d), DotPoint(d, i))

\* C14 (as claimed): for every point table compute_center_of_gravity accepts that
\* has at least one point of positive weight, the centroid lies in the convex hull
\* of the points.
C14_CentroidInConvexHull ==
    (/\ CenterComputed
     /\ \E i \in 1..NumCentroidPoints : float_sign(Weight(i)) > 0)
        => InConvexHull

-----------------------------------------------------------------------------
(* Vocabulary of the properties of the TOPSIS engine.                      *)

TopsisComputed == called = "compute_topsis_details" /\ ~result.raised

Details == result.value

Ranking == Details.ranking_dataframe.rows

NumTopsisPoints == Len(points_dataframe.rows)

\* The selected criteria the table has as columns.
PresentCriteria ==
    SelectSeq(criteria_columns,
        LAMBDA c : \E i \in 1..Len(points_dataframe.columns) : points_dataframe.columns[i] = c)

\* The raw value of criterion c in row i; a missing cell counts 0.
RawValue(i, c) ==
    LET cell == points_dataframe.rows[i][CHOOSE p \in 1..Len(points_dataframe.columns) :
                                            points_dataframe.columns[p] = c]
    IN  IF cell.kind = "nan" THEN 0 ELSE cell.val

\* The score s is a number of [0, 1]: the literal 0.0, or sqrt(minus) /
\* (sqrt(plus) + sqrt(minus)) with minus >= 0, plus >= 0 and not both 0.
InUnitInterval(s) ==
    \/ s.kind = "zero"
    \/ /\ s.kind = "quotient"
       /\ s.minus >= 0
       /\ s.plus >= 0
       /\ s.minus + s.plus > 0

\* C15: every TOPSIS score s_i = d-_i / (d+_i + d-_i) lies in [0, 1]; when both
\* distances are 0 the score is 0.0 and nothing is divided by zero.
C15_ScoresInUnitInterval ==
    TopsisComputed =>
        \A i \in 1..Len(Details.topsis_scores) :
            LET s == Details.topsis_scores[i]
                to_best == Details.distances_to_best[i]
                to_worst == Details.distances_to_worst[i]
            IN  /\ InUnitInterval(s)
                /\ to_best.squared_den > 0
                /\ to_worst.squared_den = to_best.squared_den
                /\ IF to_best.squared_num = 0 /\ to_worst.squared_num = 0
                   THEN s.kind = "zero"
                   ELSE /\ s.kind = "quotient"
                        /\ s.minus = to_worst.squared_num
                        /\ s.plus = to_best.squared_num

\* Two points equal on the one selected criterion, whose values are not 0: both
\* distances of both points are 0 and both scores are 0.0.
C15_Witness ==
    /\ TopsisComputed
    /\ criteria_columns = <<"cost">>
    /\ NumTopsisPoints = 2
    /\ RawValue(1, "cost") = 2 /\ RawValue(2, "cost") = 2
    /\ Details.distances_to_best[1].squared_num = 0
    /\ Details.distances_to_worst[1].squared_num = 0
    /\ Details.topsis_scores[1].kind = "zero"
    /\ Details.topsis_scores[2].kind = "zero"

\* The input row of the point ranked r-th: row i of an input table lies at
\* longitude i.
PointOfRank(r) == Ranking[r][1].val

ScoreOfRank(r) == Ranking[r][3]

\* The score s is above 0.5: d- > d+.
AboveHalf(s) == s.kind = "quotient" /\ s.minus > s.plus

\* One criterion is selected, the table has it and its weight is positive.
SingleCriterion ==
    /\ Len(criteria_columns) = 1
    /\ Len(PresentCriteria) = 1
    /\ criteria_weights_by_name[criteria_columns[1]] > 0
    /\ NumTopsisPoints >= 1

\* C16: with a single selected criterion of positive weight, impact benefit ranks
\* the points by descending raw value and impact cost by ascending raw value; two
\* points of cost 10 and 20 rank the point of cost 10 first, with a score above
\* 0.5.
C16_SingleCriterionOrder ==
    /\ (TopsisComputed /\ SingleCriterion) =>
            LET c == criteria_columns[1]
            IN  /\ Len(Ranking) = NumTopsisPoints
                /\ \A r1, r2 \in 1..Len(Ranking) :
                        r1 < r2 =>
                            IF criteria_impacts_by_name[c] = "cost"
                            THEN RawValue(PointOfRank(r1), c) <= RawValue(PointOfRank(r2), c)
                            ELSE RawValue(PointOfRank(r1), c) >= RawValue(PointOfRank(r2), c)
    /\ (/\ called = "compute_topsis_details"
        /\ points_dataframe = CostExampleTable
        /\ criteria_columns = <<"cost">>
        /\ criteria_impacts_by_name["cost"] = "cost"
        /\ criteria_weights_by_name["cost"] = 1) =>
            /\ ~result.raised
            /\ RawValue(PointOfRank(1), "cost") = 10
            /\ AboveHalf(ScoreOfRank(1))

\* The example: the point of cost 10 is first and the point of cost 20 second.
C16_Witness ==
    /\ TopsisComputed
    /\ points_dataframe = CostExampleTable
    /\ criteria_columns = <<"cost">>
    /\ criteria_impacts_by_name["cost"] = "cost"
    /\ criteria_weights_by_name["cost"] = 1
    /\ Len(Ranking) = 2
    /\ RawValue(PointOfRank(1), "cost") = 10
    /\ RawValue(PointOfRank(2), "cost") = 20
    /\ AboveHalf(ScoreOfRank(1))

\* The weights supplied for the selected criteria the table has.
SuppliedWeights == [j \in 1..Len(PresentCriteria) |-> criteria_weights_by_name[PresentCriteria[j]]]

RECURSIVE IntSum(_)
IntSum(terms) == IF Len(terms) = 0 THEN 0 ELSE Head(terms) + IntSum(Tail(terms))

UsedWeights == Details.normalized_weights_by_column

\* The weight w is the number a / b.
WeightIs(w, a, b) == w.den # 0 /\ b # 0 /\ w.num * b = a * w.den

\* The weights w_1 .. w_k sum to 1: they share their denominator.
SumToOne(weights) ==
    /\ \A j \in 1..Len(weights) : weights[j].den = weights[1].den /\ weights[j].den > 0
    /\ IntSum([j \in 1..Len(weights) |-> weights[j].num]) = weights[1].den

\* C17: the weights TOPSIS uses are the supplied weights of the selected criteria
\* divided by their sum, and sum to 1; when every supplied weight is 0 each of the
\* k criteria gets 1/k; the weights enter the weighted matrix and every score is
\* a number.
C17_WeightsNormalized ==
    (TopsisComputed /\ NumTopsisPoints >= 1 /\ Len(PresentCriteria) >= 1) =>
        LET k == Len(PresentCriteria)
            total == IntSum(SuppliedWeights)
        IN  /\ Len(UsedWeights) = k
            /\ SumToOne(UsedWeights)
            /\ \A j \in 1..k :
                    /\ IF total = 0 THEN WeightIs(UsedWeights[j], 1, k)
                       ELSE WeightIs(UsedWeights[j], SuppliedWeights[j], total)
                    /\ \A i \in 1..NumTopsisPoints :
                            LET v == Details.weighted_normalized_matrix[i][j]
                                r == Details.normalized_matrix[i][j]
                            IN  /\ v.num = r.num * UsedWeights[j].num
                                /\ v.den = UsedWeights[j].den
                                /\ v.rad = r.rad
            /\ \A i \in 1..NumTopsisPoints : InUnitInterval(Details.topsis_scores[i])

\* Two selected criteria whose supplied weights are both 0: each gets 1/2, and the
\* scores of the two points differ.
C17_Witness ==
    /\ TopsisComputed
    /\ criteria_columns = <<"cost", "quality">>
    /\ SuppliedWeights = <<0, 0>>
    /\ UsedWeights = <<[num |-> 1, den |-> 2], [num |-> 1, den |-> 2]>>
    /\ NumTopsisPoints = 2
    /\ score_less(Details.topsis_scores[1], Details.topsis_scores[2])

SameScore(s, t) == ~score_less(s, t) /\ ~score_less(t, s)

\* C18: the ranking lists every input point exactly once, by non-increasing
\* score, points of equal score in their original row order, and gives the rows
\* the rank positions 1..n in that order.
C18_RankingIsStableDescending ==
    (TopsisComputed /\ NumTopsisPoints >= 1 /\ Len(PresentCriteria) >= 1) =>
        /\ Len(Ranking) = NumTopsisPoints
        /\ {PointOfRank(r) : r \in 1..Len(Ranking)} = 1..NumTopsisPoints
        /\ \A r \in 1..Len(Ranking) :
                /\ Ranking[r][1] = points_dataframe.rows[PointOfRank(r)][1]
                /\ Ranking[r][2] = points_dataframe.rows[PointOfRank(r)][2]
                /\ ScoreOfRank(r) = Details.topsis_scores[PointOfRank(r)]
                /\ Ranking[r][4] = F(r)
        /\ \A r1, r2 \in 1..Len(Ranking) :
                r1 < r2 =>
                    /\ ~score_less(ScoreOfRank(r1), ScoreOfRank(r2))
                    /\ SameScore(ScoreOfRank(r1), ScoreOfRank(r2))
                            => PointOfRank(r1) < PointOfRank(r2)

\* Two different points of the same score 0.5, each best on one criterion and
\* worst on the other: they are ranked in row order.
C18_Witness ==
    /\ TopsisComputed
    /\ NumTopsisPoints = 2
    /\ Len(PresentCriteria) = 2
    /\ Details.decision_matrix[1] # Details.decision_matrix[2]
    /\ ScoreOfRank(1).kind = "quotient"
    /\ ScoreOfRank(1).minus = ScoreOfRank(1).plus
    /\ SameScore(ScoreOfRank(1), ScoreOfRank(2))
    /\ PointOfRank(1) = 1 /\ PointOfRank(2) = 2
    /\ Ranking[2][4] = F(2)

\* C19: with zero points or zero selected criteria the ranking is empty and
\* nothing is raised; a selected name that is not a column of the table is left
\* out of the decision matrix, and the remaining criteria are ranked as if it had
\* not been selected.
C19_EmptyAndUnknownCriteria ==
    called = "compute_topsis_details" =>
        /\ ~result.raised
        /\ Details.ranking_dataframe.columns =
                <<"longitude", "latitude", "topsis_score", "topsis_rank">>
        /\ (NumTopsisPoints = 0 \/ Len(criteria_columns) = 0) => Ranking = <<>>
        /\ NumTopsisPoints >= 1 =>
                /\ Details.valid_criteria_columns = PresentCriteria
                /\ Len(PresentCriteria) >= 1 =>
                        /\ Len(Ranking) = NumTopsisPoints
                        /\ \A i \in 1..NumTopsisPoints :
                                Details.decision_matrix[i] =
                                    [j \in 1..Len(PresentCriteria) |->
                                        RawValue(i, PresentCriteria[j])]
        /\ Details.ranking_dataframe =
                compute_topsis_details(points_dataframe, PresentCriteria,
                    criteria_weights_by_name, criteria_impacts_by_name)
                        .value.ranking_dataframe

\* The criteria cost and ghost are selected and the table has no column ghost:
\* the two points are ranked on cost alone, the second point first.
C19_Witness ==
    /\ TopsisComputed
    /\ criteria_columns = <<"cost", "ghost">>
    /\ NumTopsisPoints = 2
    /\ Details.valid_criteria_columns = <<"cost">>
    /\ Details.decision_matrix = << <<1>>, <<2>> >>
    /\ criteria_impacts_by_name["cost"] = "benefit"
    /\ criteria_weights_by_name["cost"] = 1
    /\ Len(Ranking) = 2
    /\ PointOfRank(1) = 2

-----------------------------------------------------------------------------
(* Vocabulary of the properties of the file reader.                        *)

\* The file is one its parser reads: a csv file not named as a spreadsheet, or a
\* spreadsheet named .xlsx or .xls in any case.
Parses ==
    /\ ~uploaded_file.none
    /\ IF uploaded_file.name \in {"POINTS.XLSX", "points.xls"}
       THEN uploaded_file.format = "excel"
       ELSE uploaded_file.format = "csv"

\* C20 (as claimed): read_points_from_uploaded_file never lets an exception out:
\* for a missing file or a file whose parsing fails it returns the empty table
\* with the four canonical columns, and for every file that parses it returns a
\* normalised table.
C20_UploadNeverRaises ==
    called = "read_points_from_uploaded_file" =>
        /\ ~result.raised
        /\ ~Parses => result.value = DataFrame(CanonicalColumns, <<>>)
        /\ Parses =>
                /\ result.value.columns = CanonicalColumns
                /\ \A r \in 1..Len(result.value.rows) :
                        \A k \in 1..4 : result.value.rows[r][k].kind = "float"

-----------------------------------------------------------------------------
(* Vocabulary of the properties of the reader of the drawings.             *)

Extracted == called = "extract_marker_positions_from_drawings"

IsMapping(v) == v.kind = "dict"

ConvertibleToNumber(v) == v.kind \in {"float", "numstr", "inf", "tiny"}

NumberOf(v) == IF v.kind = "numstr" THEN F(v.val) ELSE v

\* A mapping whose geometry is a mapping of type "Point" with at least two
\* coordinates, both convertible to a number.
IsMarkerRecord(feature) ==
    /\ IsMapping(feature)
    /\ IsMapping(feature.geometry)
    /\ feature.geometry.type = "Point"
    /\ feature.geometry.coordinates.kind \in {"list", "tuple"}
    /\ Len(feature.geometry.coordinates.items) >= 2
    /\ ConvertibleToNumber(feature.geometry.coordinates.items[1])
    /\ ConvertibleToNumber(feature.geometry.coordinates.items[2])

-----------------------------------------------------------------------------
(* Properties of the reader of the drawings.                               *)

\* C24: extract_marker_positions_from_drawings never raises: for None and for a
\* value that is neither a list nor a mapping it returns the empty list;
\* otherwise it returns, in input order, the pair (lon, lat) of exactly the
\* records that are mappings whose geometry is a mapping of type "Point" with at
\* least two coordinates both convertible to a number, and skips the others.
C24_MarkersOfPointRecords ==
    Extracted =>
        /\ ~result.raised
        /\ all_drawings.kind \notin {"dict", "list"} => result.value = <<>>
        /\ all_drawings.kind \in {"dict", "list"} =>
            LET records == SelectSeq(all_drawings.items, IsMarkerRecord)
            IN  /\ Len(result.value) = Len(records)
                /\ \A j \in 1..Len(records) :
                    result.value[j] =
                        <<NumberOf(records[j].geometry.coordinates.items[1]),
                          NumberOf(records[j].geometry.coordinates.items[2])>>

\* A polygon, skipped, before a point with a spelt longitude, kept.
C24_Witness ==
    /\ Extracted
    /\ all_drawings.kind = "dict"
    /\ Len(all_drawings.items) = 2
    /\ all_drawings.items[1].geometry.type = "Polygon"
    /\ all_drawings.items[2].geometry.coordinates.items = <<S(3), F(4)>>
    /\ result.value = << <<F(3), F(4)>> >>

-----------------------------------------------------------------------------
(* Vocabulary of the properties of the script of src/app.py.               *)

\* A run of the script has ended, and not in an exception.
RanToTheMap == script_run.kind = "run" /\ ~script_run.raised

\* The signature of the markers the map reports: the rounded coordinates of the
\* point records among the drawings, in order.
ReportedSignature ==
    IF all_drawings.kind = "none" THEN <<>>
    ELSE LET records == SelectSeq(all_drawings.items, IsMarkerRecord)
         IN  [j \in 1..Len(records) |->
                <<round8(NumberOf(records[j].geometry.coordinates.items[1])),
                  round8(NumberOf(records[j].geometry.coordinates.items[2]))>>]

\* The markers the map reports, as the reconciler takes them.
ReportedMarkers ==
    [none |-> FALSE,
     items |-> [j \in 1..Len(ReportedSignature) |->
                    <<ReportedSignature[j][1].val, ReportedSignature[j][2].val>>]]

TableSignature(T) == points_dataframe_signature(T).value

\* The table the reconciler makes of the table of session and the reported markers.
Reconciled(session) ==
    synchronize_points_dataframe_with_marker_positions(
        session.points_dataframe, ReportedMarkers,
        session.map_default_transport_rate, session.map_default_mass).value

-----------------------------------------------------------------------------
(* Properties of the script of src/app.py.                                 *)

\* C23: in a run of the script, when the signature of the markers the map reports
\* equals the stored snapshot, no reconciliation runs, the table and the snapshot
\* stay as they are and no rerun is requested; when it differs, the snapshot
\* becomes the new signature, and the table is replaced by the reconciled table
\* and a rerun requested exactly when the signature of the reconciled table
\* differs from the signature of the table before.
C23_ReconcileOnlyOnNewMarkers ==
    RanToTheMap =>
        LET before == script_run.before_map
            after == script_run.end
        IN  IF ReportedSignature = before.map_marker_positions_snapshot
            THEN /\ ~script_run.reconciled
                 /\ after = before
                 /\ ~script_run.rerun
            ELSE /\ script_run.reconciled
                 /\ after.map_marker_positions_snapshot = ReportedSignature
                 /\ IF TableSignature(Reconciled(before)) # TableSignature(before.points_dataframe)
                    THEN /\ after.points_dataframe = Reconciled(before)
                         /\ script_run.rerun
                    ELSE /\ after.points_dataframe = before.points_dataframe
                         /\ ~script_run.rerun

\* The user drew a marker on the only point of the table: the script reconciled,
\* stored the snapshot, left the table and asked for no rerun.
C23_Witness ==
    /\ RanToTheMap
    /\ script_run.reconciled
    /\ ~script_run.rerun
    /\ Len(script_run.before_map.points_dataframe.rows) = 1
    /\ script_run.before_map.map_marker_positions_snapshot = <<>>
    /\ Len(session_state.map_marker_positions_snapshot) = 1
    /\ session_state.points_dataframe = script_run.before_map.points_dataframe

\* The table the file of the uploader gives, when reading it does not raise.
Uploaded == read_points_from_uploaded_file(uploaded_file)

\* C25: an upload that yields zero points (a file no parser reads, or a file with
\* no row of numeric coordinates) leaves the table of the session as it was; the
\* table of the session is replaced by the uploaded table only when the uploaded
\* table has at least one row.  Stated on the table before and after the lines
\* that handle the upload.
C25_EmptyUploadKeepsTable ==
    (script_run.kind = "run" /\ ~uploaded_file.none) =>
        LET before == script_run.start.points_dataframe
            after == script_run.after_upload.points_dataframe
        IN  /\ (Uploaded.raised \/ Len(Uploaded.value.rows) = 0) => after = before
            /\ (~Uploaded.raised /\ Len(Uploaded.value.rows) > 0) => after = Uploaded.value
            /\ script_run.after_upload = [script_run.start EXCEPT !.points_dataframe = after]

\* A file no parser reads was put into the uploader while the table held a point:
\* the table still holds it.
C25_Witness ==
    /\ script_run.kind = "run"
    /\ ~script_run.raised
    /\ uploaded_file.format = "garbage"
    /\ Len(script_run.start.points_dataframe.rows) = 1
    /\ script_run.after_upload.points_dataframe = script_run.start.points_dataframe
    /\ session_state.points_dataframe = script_run.start.points_dataframe

\* C26 (as claimed): the loop of reconciliation and rerun ends: as long as the map
\* reports the same drawn markers, at most one reconciliation is performed and at
\* most one rerun is requested, and every further run finds the signature of the
\* markers equal to the snapshot and changes nothing.
C26_OneReconciliationPerDrawing ==
    script_run.kind = "run" =>
        /\ script_run.counted.reconciliations <= 1
        /\ script_run.counted.reruns <= 1

\* The loop of reruns ends: a run that streamlit.rerun() started reconciles
\* nothing, changes nothing in its handling of the map and asks for no rerun, so
\* that no more than two runs follow an act of the user.
RerunLoopEnds ==
    script_run.kind = "run" =>
        /\ script_run.counted.runs <= 2
        /\ (script_run.counted.runs = 2 /\ ~script_run.raised) =>
            /\ ~script_run.reconciled
            /\ ~script_run.rerun
            /\ script_run.end = script_run.before_map

\* C27 (as claimed): after "clear all points" is pressed, the table of the session
\* is empty when the run ends and the run requests no rerun, whatever markers the
\* map reports in that run.
C27_ClearLeavesEmptyTable ==
    (RanToTheMap /\ script_run.clear_points_button) =>
        /\ Len(session_state.points_dataframe.rows) = 0
        /\ ~script_run.rerun

-----------------------------------------------------------------------------
(* Vocabulary of the properties of the criteria of the session.            *)

Updated == called = "update_topsis_state_for_available_criteria"

Selected == session_state.topsis_selected_criteria_columns

SelectedSet == {Selected[i] : i \in 1..Len(Selected)}

\* The session the call found.
Before == script_run.before

\* The names of the available columns, trimmed and lower-cased, blank names left out.
AvailableSet ==
    {TrimmedLower(criteria_columns[i]) : i \in 1..Len(criteria_columns)} \ {""}

-----------------------------------------------------------------------------
(* Properties of the criteria of the session.                              *)

\* C21: after every call of update_topsis_state_for_available_criteria the keys of
\* the stored weights, impacts and default values are each exactly the selected
\* criteria; a criterion that was configured and is still selected keeps its
\* weight, impact and default value; a newly selected criterion gets weight 1.0,
\* impact benefit and default value 1.0; the settings of the other criteria are
\* gone.
C21_SettingsFollowSelection ==
    Updated =>
        /\ DOMAIN session_state.topsis_criteria_weights = SelectedSet
        /\ DOMAIN session_state.topsis_criteria_impacts = SelectedSet
        /\ DOMAIN session_state.topsis_default_values_by_criteria = SelectedSet
        /\ DOMAIN session_state.topsis_criteria_weights \subseteq AvailableSet
        /\ \A c \in SelectedSet :
            IF c \in DOMAIN Before.topsis_criteria_weights
            THEN /\ session_state.topsis_criteria_weights[c] = Before.topsis_criteria_weights[c]
                 /\ session_state.topsis_criteria_impacts[c] = Before.topsis_criteria_impacts[c]
                 /\ session_state.topsis_default_values_by_criteria[c] =
                        Before.topsis_default_values_by_criteria[c]
            ELSE /\ session_state.topsis_criteria_weights[c] = 1
                 /\ session_state.topsis_criteria_impacts[c] = "benefit"
                 /\ session_state.topsis_default_values_by_criteria[c] = 1

\* time was configured and stays selected, cost is new, and nothing is kept for
\* a criterion that is not selected.
C21_Witness ==
    /\ Updated
    /\ Before.topsis_selected_criteria_columns = <<"time", "cost">>
    /\ DOMAIN Before.topsis_criteria_weights = {"time"}
    /\ Before.topsis_criteria_weights["time"] = 2
    /\ Selected = <<"time", "cost">>
    /\ session_state.topsis_criteria_weights["time"] = 2
    /\ session_state.topsis_criteria_impacts["time"] = "cost"
    /\ session_state.topsis_criteria_weights["cost"] = 1

\* C28: after update_topsis_state_for_available_criteria the selected criteria are
\* among the available columns, and the selection is empty only when no column is
\* available: an empty selection, and one of which no column is left, is replaced
\* by all the available columns.  The names are compared trimmed and lower-cased.
C28_SelectionAmongAvailable ==
    Updated =>
        /\ SelectedSet \subseteq AvailableSet
        /\ Len(Selected) = 0 => AvailableSet = {}
        /\ (\A i \in 1..Len(Before.topsis_selected_criteria_columns) :
                Before.topsis_selected_criteria_columns[i] \notin AvailableSet)
            => SelectedSet = AvailableSet

\* The selected column time is gone and cost is available: cost is selected.
C28_Witness ==
    /\ Updated
    /\ Before.topsis_selected_criteria_columns = <<"time">>
    /\ criteria_columns = <<" Cost">>
    /\ Selected = <<"cost">>

-----------------------------------------------------------------------------
(* Vocabulary of the properties of the page.                               *)

RanApp == script_run.kind = "run_app"

Version == session_state.interactive_folium_map_key_version

\* The places of src/ui.py that assign the points table.
Places == {"import", "edit", "map", "manual", "criterion", "clear"}

-----------------------------------------------------------------------------
(* Properties of the page.                                                 *)

\* C29: a run of the page of ui.py never lowers the version of the key of the map;
\* a run that assigns the points table (file import, table edit, add point from
\* map, manual add, add criterion, clear) or stores another calculation method
\* raises it, once for each; a run that does neither leaves it.
C29_VersionFollowsTable ==
    RanApp =>
        /\ Version >= script_run.start
        /\ script_run.replaced > 0 \/ script_run.method_changed => Version > script_run.start
        /\ script_run.replaced = 0 /\ ~script_run.method_changed => Version = script_run.start
        /\ script_run.replaced_by \subseteq Places
        /\ Version = script_run.start + script_run.replaced
                        + (IF script_run.method_changed THEN 1 ELSE 0)

\* A run that took the file of the uploader, stored an edit of the table and
\* cleared the table: the version is three higher.
C29_Witness ==
    /\ RanApp
    /\ script_run.replaced_by = {"import", "edit", "clear"}
    /\ Version = script_run.start + 3

-----------------------------------------------------------------------------
(* Properties of the objects of a call.                                    *)

CoreOperations ==
    {"ensure_points_dataframe", "append_point", "compute_center_of_gravity",
     "compute_point_distances", "synchronize_points_dataframe_with_marker_positions"}

\* C22: ensure_points_dataframe, append_point, compute_center_of_gravity,
\* compute_point_distances and synchronize_points_dataframe_with_marker_positions
\* leave the table and the marker list passed to them as they were, in columns,
\* rows and values, whether they return or raise, and what they return is a new
\* object, not one that was passed.
C22_CoreLeavesArguments ==
    called \in CoreOperations =>
        /\ points_dataframe = script_run.before[PassedTable]
        /\ marker_positions = script_run.before[PassedMarkers]
        /\ ~script_run.raised => script_run.returned \notin {PassedTable, PassedMarkers}

\* A table with headers to trim and without transport_rate and mass was passed
\* to compute_point_distances: the result has the six columns and the table
\* passed has its two.
C22_Witness ==
    /\ called = "compute_point_distances"
    /\ ~result.raised
    /\ Len(result.value.rows) = 1
    /\ Len(result.value.columns) = 6
    /\ points_dataframe.columns = <<" Lon ", "LAT">>
    /\ Len(points_dataframe.rows) = 1

-----------------------------------------------------------------------------
(* Vocabulary of the properties of the reconciler.                         *)

Synchronized == called = "synchronize_points_dataframe_with_marker_positions"

Markers == marker_positions.items
NumPoints == Len(points_dataframe.rows)
NumMarkers == Len(Markers)

PointPosition(ei) ==
    <<points_dataframe.rows[ei + 1][1].val, points_dataframe.rows[ei + 1][2].val>>

PairDistance(ei, mi) == distance_key(PointPosition(ei), Markers[mi + 1])

MatchedMap == match_points(points_dataframe, Markers).matched_map

Min(a, b) == IF a <= b THEN a ELSE b

\* Integer bounds of a square root: FloorSqrt(x) <= sqrt(x) <= CeilSqrt(x).
FloorSqrt(x) == CHOOSE r \in 0..x : r * r <= x /\ x < (r + 1) * (r + 1)
CeilSqrt(x) == CHOOSE r \in 0..x : x <= r * r /\ (r = 0 \/ (r - 1) * (r - 1) < x)

\* (d, ei, mi) before (d', ei', mi') in the lexicographic order.
LexLess(p, q) ==
    \/ p[1] < q[1]
    \/ p[1] = q[1] /\ p[2] < q[2]
    \/ p[1] = q[1] /\ p[2] = q[2] /\ p[3] < q[3]

MarkerRow(mi, tr, mass) == <<F(Markers[mi + 1][1]), F(Markers[mi + 1][2]), tr, mass>>

-----------------------------------------------------------------------------
(* Properties of the reconciler.                                           *)

\* C1: with n >= 1 previous points and m >= 1 markers the matching is one-to-one,
\* has exactly min(n, m) pairs, and each pair, in the order of acceptance, has the
\* smallest distance among all pairs whose point and marker were both unmatched
\* when it was accepted: no pair is refused for being far.
C1_GreedyMatching ==
    (Synchronized /\ NumPoints >= 1 /\ NumMarkers >= 1) =>
        LET mm == MatchedMap
        IN  /\ Len(mm) = Min(NumPoints, NumMarkers)
            /\ \A s, t \in 1..Len(mm) :
                    s # t => mm[s][1] # mm[t][1] /\ mm[s][2] # mm[t][2]
            /\ \A t \in 1..Len(mm) :
                \A ei \in 0..(NumPoints - 1), mi \in 0..(NumMarkers - 1) :
                    (\A s \in 1..(t - 1) : mm[s][1] # ei /\ mm[s][2] # mi)
                        => PairDistance(mm[t][1], mm[t][2]) <= PairDistance(ei, mi)

\* Two points and two markers on which the greedy matching is longer in total
\* than the other assignment.
C1_Witness ==
    /\ Synchronized /\ NumPoints = 2 /\ NumMarkers = 2
    /\ Len(result.value.rows) = 2
    /\ LET mm == MatchedMap
       IN  FloorSqrt(PairDistance(mm[1][1], mm[1][2]))
                + FloorSqrt(PairDistance(mm[2][1], mm[2][2]))
            > CeilSqrt(PairDistance(mm[1][1], mm[2][2]))
                + CeilSqrt(PairDistance(mm[2][1], mm[1][2]))

\* C2: with n >= 1 previous points and m >= 1 markers the result has exactly m
\* rows: the matched previous points in their own order, each at its marker's
\* coordinates with its own transport_rate and mass, then the unmatched markers in
\* marker order with the default transport_rate and mass.  Every marker is the
\* position of exactly one row and an unmatched previous point gives no row.
C2_ReconciledRows ==
    (Synchronized /\ NumPoints >= 1 /\ NumMarkers >= 1) =>
        LET out == result.value
            mm == MatchedMap
            points == {mm[t][1] : t \in 1..Len(mm)}
            fresh == (0..(NumMarkers - 1)) \ {mm[t][2] : t \in 1..Len(mm)}
        IN  /\ ~result.raised
            /\ out.columns = <<"longitude", "latitude", "transport_rate", "mass">>
            /\ Len(out.rows) = NumMarkers
            /\ \A t \in 1..Len(mm) :
                LET ei == mm[t][1]
                    j == 1 + Cardinality({e \in points : e < ei})
                IN  out.rows[j] = MarkerRow(mm[t][2],
                                    points_dataframe.rows[ei + 1][3],
                                    points_dataframe.rows[ei + 1][4])
            /\ \A mi \in fresh :
                LET j == Cardinality(points) + 1 + Cardinality({u \in fresh : u < mi})
                IN  out.rows[j] = MarkerRow(mi, F(default_transport_rate), F(default_mass))
            /\ \A g \in GridPositions :
                Cardinality({j \in 1..Len(out.rows) :
                                <<out.rows[j][1], out.rows[j][2]>> = <<F(g[1]), F(g[2])>>})
                    = Cardinality({mi \in 1..NumMarkers : Markers[mi] = g})
            /\ \A ei \in (0..(NumPoints - 1)) \ points :
                \A j \in 1..Len(out.rows) : out.rows[j][3] # points_dataframe.rows[ei + 1][3]

\* One previous point matched to the second of two markers: its row comes first,
\* moved, with its own attributes; the first marker follows with the defaults.
C2_Witness ==
    /\ Synchronized /\ NumPoints = 1 /\ NumMarkers = 2
    /\ MatchedMap = <<<<0, 1>>>>
    /\ Markers[2] # PointPosition(0)
    /\ result.value.rows = <<MarkerRow(1, F(11), F(21)),
                             MarkerRow(0, F(default_transport_rate), F(default_mass))>>

\* C3: reconciling a normalised table against its own coordinates, in row order,
\* returns the table unchanged, row for row, whatever the defaults.
C3_IdempotentOnOwnPositions ==
    (/\ Synchronized
     /\ ~points_dataframe.none
     /\ ~marker_positions.none
     /\ Markers = [i \in 1..NumPoints |-> PointPosition(i - 1)])
        => result = [raised |-> FALSE, value |-> points_dataframe]

\* Two points at the same coordinates, with different attributes.
C3_Witness ==
    /\ Synchronized /\ NumPoints = 2 /\ NumMarkers = 2
    /\ PointPosition(0) = PointPosition(1)
    /\ Markers = <<PointPosition(0), PointPosition(1)>>
    /\ points_dataframe.rows[1][3] # points_dataframe.rows[2][3]
    /\ result.value.rows = points_dataframe.rows

\* C4: with an empty or missing marker list the result is the empty point table
\* with the canonical columns, whatever the previous points and the defaults.
C4_EmptyMarkersGiveEmptyTable ==
    (Synchronized /\ (marker_positions.none \/ NumMarkers = 0)) =>
        /\ ~result.raised
        /\ ~result.value.none
        /\ result.value.columns = <<"longitude", "latitude", "transport_rate", "mass">>
        /\ result.value.rows = <<>>

\* Two previous points and no marker.
C4_Witness ==
    /\ Synchronized /\ NumPoints = 2 /\ ~marker_positions.none /\ NumMarkers = 0
    /\ result.value.rows = <<>>

\* C5: the candidate pairs are processed in ascending order of (distance,
\* previous-point index, marker index): the processed list holds every pair once
\* and is strictly increasing in that order.
C5_TotalTieBreak ==
    (Synchronized /\ NumPoints >= 1 /\ NumMarkers >= 1) =>
        LET processed == sorted_pairs(points_dataframe, Markers)
        IN  /\ Len(processed) = NumPoints * NumMarkers
            /\ \A ei \in 0..(NumPoints - 1), mi \in 0..(NumMarkers - 1) :
                \E i \in 1..Len(processed) : processed[i] = <<PairDistance(ei, mi), ei, mi>>
            /\ \A i \in 1..(Len(processed) - 1) : LexLess(processed[i], processed[i + 1])

\* The two nearest pairs are at the same distance and compete for one marker:
\* the lower previous-point index gets it.
C5_Witness ==
    /\ Synchronized /\ NumPoints = 2 /\ NumMarkers = 2
    /\ PairDistance(0, 0) = PairDistance(1, 0)
    /\ PairDistance(0, 0) < PairDistance(0, 1)
    /\ PairDistance(0, 0) < PairDistance(1, 1)
    /\ MatchedMap = <<<<0, 0>>, <<1, 1>>>>

\* C6: with no previous point and at least one marker the result has one row per
\* marker, in marker order, at the marker's coordinates with the default
\* transport_rate and mass.
C6_NoPreviousPoints ==
    (Synchronized /\ NumPoints = 0 /\ NumMarkers >= 1) =>
        /\ ~result.raised
        /\ result.value.columns = <<"longitude", "latitude", "transport_rate", "mass">>
        /\ result.value.index = [j \in 1..NumMarkers |-> j - 1]
        /\ result.value.rows =
            [j \in 1..NumMarkers |->
                MarkerRow(j - 1, F(default_transport_rate), F(default_mass))]

\* No previous table at all, two markers, defaults other than 1.
C6_Witness ==
    /\ Synchronized /\ points_dataframe.none /\ NumMarkers = 2
    /\ default_transport_rate = 5 /\ default_mass = 6
    /\ Len(result.value.rows) = 2
    /\ result.value.rows[2][3] = F(5) /\ result.value.rows[2][4] = F(6)

=============================================================================
